---- MODULE Spec2Model ----
(***************************************************************************)
(* Invoice AI Scanner: the retry harness, the Embedding Indexer, the       *)
(* Candidate Retriever and the invoice pipeline of src/services, as state  *)
(* machines.  Strings that the code inspects (error messages) are tuples   *)
(* of one-character strings, so that substring tests are computed.         *)
(***************************************************************************)
EXTENDS Integers, Sequences, FiniteSets, TLC

VARIABLES
    rMax,       \* retryOperation: the maxRetries argument
    rInit,      \* retryOperation: the initialDelay argument
    h,          \* retryOperation: the state of the loop (see RetryStart)
    hist,       \* the outcomes the wrapped operation produced, in order
    config,     \* AIConfig: provider and apiKey
    env,        \* process.env: API_KEY, OPENAI_API_KEY and GEMINI_API_KEY
    db,         \* the catalog: the Product objects, in array order
    db0,        \* the catalog as it was handed to the operation
    remote,     \* number of remote calls issued so far
    ixPc,       \* generateEmbeddingsForDatabase: position
    ixI,        \* generateEmbeddingsForDatabase: the loop variable i
    ixSt,       \* per product: where its callback of the batch stands
    ixH,        \* per product: the retryOperation of its embedding call
    ixRet,      \* per product: the value its embedding call returned
    ixSleeps,   \* the inter-batch sleeps performed, in order
    ixProgress, \* the onProgress reports, in order
    ixErr,      \* the message of the error generateEmbeddingsForDatabase threw
    nQ,         \* findNearestNeighbors: the queryEmbedding argument
    nK,         \* findNearestNeighbors: the k argument
    nPc,        \* findNearestNeighbors: "idle", or "done" once it has returned
    nRes,       \* findNearestNeighbors: the products returned (positions in db)
    nCandPc,    \* the vector search of mapItemsWithRAG: "idle" or "done"
    nCand,      \* the vector search of mapItemsWithRAG: the candidates
    pImages,    \* processInvoice: the number of image chunks of the invoice
    pPc,        \* processInvoice: position
    pI,         \* extractRawItems: the loop variable i
    pH,         \* extractRawItems: the retryOperation of the chunk's call
    pItems,     \* extractRawItems: allItems
    pEmb,       \* mapItemsWithRAG: per raw item, its query embedding call
    pAdj,       \* mapItemsWithRAG: per synthesis chunk, its adjudication call
    pResult,    \* processInvoice: the list returned
    pErr,       \* processInvoice: the message of the error thrown
    pChunks,    \* extractRawItems: per image chunk, its call and chunkItems
    tText,      \* the table parser: textResponse
    tPc,        \* the table parser: position
    tLines,     \* the table parser: lines
    tI,         \* the table parser: number of lines already visited
    tInTable,   \* the table parser: inTable
    tItems,     \* the table parser: items
    invoices,   \* App: the invoices state, in array order
    aCall,      \* App: per invoice, its processInvoice call and how it ended
    isProcessing, \* App: the isProcessing state
    aPc,        \* handleProcessInvoices: position
    aPending,   \* handleProcessInvoices: pendingInvoices (positions)
    aI,         \* handleProcessInvoices: the loop variable i
    aAlert,     \* App: the last alert shown
    aRetries    \* App: number of re-submissions so far

retryVars == <<rMax, rInit, h, hist>>
cfgVars == <<config, env>>
indexVars == <<ixPc, ixI, ixSt, ixH, ixRet, ixSleeps, ixProgress, ixErr>>
nearVars == <<nQ, nK, nPc, nRes, nCandPc, nCand>>
vars == <<rMax, rInit, h, hist, config, env, db, db0, remote,
          ixPc, ixI, ixSt, ixH, ixRet, ixSleeps, ixProgress, ixErr,
          nQ, nK, nPc, nRes, nCandPc, nCand,
          pImages, pPc, pI, pH, pItems, pEmb, pAdj, pResult, pErr, pChunks,
          tText, tPc, tLines, tI, tInTable, tItems,
          invoices, aCall, isProcessing, aPc, aPending, aI, aAlert, aRetries>>
appVars == <<invoices, aCall, isProcessing, aPc, aPending, aI, aAlert, aRetries>>
parseVars == <<tText, tPc, tLines, tI, tInTable, tItems>>
pipeVars == <<pImages, pPc, pI, pH, pItems, pEmb, pAdj, pResult, pErr, pChunks>>

None == "none"

\* ------------------------------------------------------------------ bounds
\* the largest maxRetries argument explored
MaxAttemptsBound == 5

\* the longest catalog explored
MaxCatalog == 2
\* the longest catalog searched and the largest k explored
MaxNearCatalog == 3
MaxK == 3
\* the most image chunks of an invoice explored
MaxImages == 2

\* ------------------------------------------------------- program constants
DefaultMaxRetries == 5
DefaultInitialDelay == 1000
\* generateEmbeddingsForDatabase: BATCH_SIZE and the inter-batch delay
IndexBatchOpenAI == 20
IndexBatchOther == 1
IndexDelayOpenAI == 10
IndexDelayOther == 200
\* mapItemsWithRAG: the number of candidates asked for
TopK == 5
\* mapItemsWithRAG: CHUNK_SIZE
SynthChunkOpenAI == 40
SynthChunkOther == 15

\* ---------------------------------------------------------------- strings
RECURSIVE Pow2(_)
Pow2(n) == IF n = 0 THEN 1 ELSE 2 * Pow2(n - 1)

\* String.prototype.toLowerCase on one character (the capitals that occur)
LowerChar(c) ==
    CASE c = "Q" -> "q"
      [] c = "I" -> "i"
      [] c = "E" -> "e"
      [] c = "R" -> "r"
      [] c = "D" -> "d"
      [] c = "P" -> "p"
      [] c = "A" -> "a"
      [] c = "B" -> "b"
      [] c = "N" -> "n"
      [] OTHER -> c

toLowerCase(s) == [k \in 1..Len(s) |-> LowerChar(s[k])]

\* String.prototype.includes
includes(s, pat) ==
    \E k \in 1..(Len(s) - Len(pat) + 1) : SubSeq(s, k, k + Len(pat) - 1) = pat

S429 == <<"4", "2", "9">>
S500 == <<"5", "0", "0">>
S503 == <<"5", "0", "3">>
SQuota == <<"q", "u", "o", "t", "a">>
SResourceExhausted ==
    <<"r", "e", "s", "o", "u", "r", "c", "e", "_",
      "e", "x", "h", "a", "u", "s", "t", "e", "d">>
SInternalError ==
    <<"i", "n", "t", "e", "r", "n", "a", "l", " ", "e", "r", "r", "o", "r">>

\* ------------------------------------------------------------------ errors
\* An error object: status and code (0 when the field is undefined, which
\* JavaScript's || treats like 0) and a message.
Err(status, code, message) ==
    [status |-> status, code |-> code, message |-> message]

\* HTTP 429 reported in the status field
ErrRateLimit == Err(429, 0, <<"s", "l", "o", "w">>)
\* HTTP 503 reported in the code field only
ErrUnavailable == Err(0, 503, <<"d", "o", "w", "n">>)
\* no status at all, a textual marker in capitals
ErrQuota == Err(0, 0, <<"Q", "u", "o", "t", "a">>)
\* authentication failure: 401, message "401 bad key"
ErrAuth == Err(401, 0, <<"4", "0", "1", " ", "k", "e", "y">>)
\* validation failure: 400, message "max 1500"
ErrValidation == Err(400, 0, <<"m", "a", "x", " ", "1", "5", "0", "0">>)

\* no error (the error slot of a call that has not thrown)
NoError == Err(0, 0, <<>>)

Errors == {ErrRateLimit, ErrUnavailable, ErrQuota, ErrAuth, ErrValidation}

\* error?.status || error?.code
StatusOf(error) == IF error.status # 0 THEN error.status ELSE error.code

\* the isRetryable expression of retryOperation's catch block
IsRetryable(error) ==
    LET msg == toLowerCase(error.message)
        status == StatusOf(error)
    IN  \/ includes(msg, S429)
        \/ includes(msg, SQuota)
        \/ includes(msg, SResourceExhausted)
        \/ includes(msg, SInternalError)
        \/ includes(msg, S500)
        \/ includes(msg, S503)
        \/ status = 429
        \/ status = 500
        \/ status = 503

\* ------------------------------------------------------------ retry harness
\* An outcome of one invocation of the wrapped operation.
Ok(value) == [ok |-> TRUE, value |-> value, error |-> NoError]
Fail(error) == [ok |-> FALSE, value |-> None, error |-> error]

ErrMaxRetries == Err(0, 0, <<"M", "a", "x">>)

\* retryOperation before the first invocation: let delay = initialDelay; i = 0.
\* With maxRetries = 0 the loop body never runs and line 86 throws.
RetryStart(maxRetries, initialDelay) ==
    [i |-> 0, delay |-> initialDelay, calls |-> 0, waits |-> <<>>,
     status |-> IF maxRetries > 0 THEN "running" ELSE "threw",
     value |-> None,
     error |-> IF maxRetries > 0 THEN NoError ELSE ErrMaxRetries]

\* RetryStep with the doubling of the delay forgotten
RetryStep_NoDoubling(hh, maxRetries, o) ==
    IF o.ok
    THEN [hh EXCEPT !.calls = @ + 1, !.status = "returned", !.value = o.value]
    ELSE IF hh.i = maxRetries - 1 \/ ~IsRetryable(o.error)
         THEN [hh EXCEPT !.calls = @ + 1, !.status = "threw", !.error = o.error]
         ELSE [hh EXCEPT !.calls = @ + 1,
                         !.waits = Append(@, hh.delay),
                         !.i = @ + 1]

\* RetryStep retrying whatever the error is
RetryStep_RetryAll(hh, maxRetries, o) ==
    IF o.ok
    THEN [hh EXCEPT !.calls = @ + 1, !.status = "returned", !.value = o.value]
    ELSE IF hh.i = maxRetries - 1
         THEN [hh EXCEPT !.calls = @ + 1, !.status = "threw", !.error = o.error]
         ELSE [hh EXCEPT !.calls = @ + 1,
                         !.waits = Append(@, hh.delay),
                         !.delay = @ * 2,
                         !.i = @ + 1]

\* RetryStep with the last attempt tested as i === maxRetries
RetryStep_OffByOne(hh, maxRetries, o) ==
    IF o.ok
    THEN [hh EXCEPT !.calls = @ + 1, !.status = "returned", !.value = o.value]
    ELSE IF hh.i = maxRetries \/ ~IsRetryable(o.error)
         THEN [hh EXCEPT !.calls = @ + 1, !.status = "threw", !.error = o.error]
         ELSE [hh EXCEPT !.calls = @ + 1,
                         !.waits = Append(@, hh.delay),
                         !.delay = @ * 2,
                         !.i = @ + 1]

\* One iteration of retryOperation's loop: the operation is invoked and
\* settles with outcome o; on failure the catch block classifies the error,
\* rethrows, or sleeps `delay`, doubles it and goes round again.
RetryStep(hh, maxRetries, o) ==
    IF o.ok
    THEN [hh EXCEPT !.calls = @ + 1, !.status = "returned", !.value = o.value]
    ELSE IF hh.i = maxRetries - 1 \/ ~IsRetryable(o.error)
         THEN [hh EXCEPT !.calls = @ + 1, !.status = "threw", !.error = o.error]
         ELSE [hh EXCEPT !.calls = @ + 1,
                         !.waits = Append(@, hh.delay),
                         !.delay = @ * 2,
                         !.i = @ + 1]

\* ----------------------------------------------- specification: the harness
Values == {"v1", "v2"}
Outcomes == {Ok(v) : v \in Values} \cup {Fail(e) : e \in Errors}

\* the state of the components a specification does not run
\* process.env as the service and the application read it
Env(apiKey, openaiKey, geminiKey) ==
    [API_KEY |-> apiKey, OPENAI_API_KEY |-> openaiKey, GEMINI_API_KEY |-> geminiKey]
NoEnv == Env("", "", "")

IdleRetry ==
    /\ rMax = DefaultMaxRetries
    /\ rInit = DefaultInitialDelay
    /\ h = RetryStart(DefaultMaxRetries, DefaultInitialDelay)
    /\ hist = <<>>

IdleConfig ==
    /\ config = [provider |-> "gemini", apiKey |-> ""]
    /\ env = NoEnv

IdleIndex ==
    /\ db = <<>>
    /\ db0 = <<>>
    /\ remote = 0
    /\ ixPc = "idle"
    /\ ixI = 0
    /\ ixSt = <<>>
    /\ ixH = <<>>
    /\ ixRet = <<>>
    /\ ixSleeps = <<>>
    /\ ixProgress = <<>>
    /\ ixErr = ""

IdleNear ==
    /\ nQ = <<>>
    /\ nK = 0
    /\ nPc = "idle"
    /\ nRes = <<>>
    /\ nCandPc = "idle"
    /\ nCand = <<>>

IdleApp ==
    /\ invoices = <<>>
    /\ aCall = <<>>
    /\ isProcessing = FALSE
    /\ aPc = "idle"
    /\ aPending = <<>>
    /\ aI = 0
    /\ aAlert = ""
    /\ aRetries = 0

IdleParse ==
    /\ tText = <<>>
    /\ tPc = "idle"
    /\ tLines = <<>>
    /\ tI = 0
    /\ tInTable = FALSE
    /\ tItems = <<>>

IdlePipe ==
    /\ pImages = 1
    /\ pPc = "idle"
    /\ pI = 0
    /\ pH = RetryStart(DefaultMaxRetries, DefaultInitialDelay)
    /\ pItems = <<>>
    /\ pEmb = <<>>
    /\ pAdj = <<>>
    /\ pResult = <<>>
    /\ pErr = ""
    /\ pChunks = <<>>

InitRetry ==
    /\ IdleNear
    /\ IdlePipe
    /\ IdleParse
    /\ IdleApp
    /\ rMax \in 1..MaxAttemptsBound
    /\ rInit \in {1, DefaultInitialDelay}
    /\ h = RetryStart(rMax, rInit)
    /\ hist = <<>>
    /\ IdleConfig
    /\ IdleIndex

\* the operation is invoked once more and settles
Attempt ==
    /\ h.status = "running"
    /\ \E o \in Outcomes :
         /\ hist' = Append(hist, o)
         /\ h' = RetryStep(h, rMax, o)
    /\ UNCHANGED <<rMax, rInit, cfgVars, db, db0, remote, indexVars, nearVars, pipeVars,
                   parseVars, appVars>>

SpecRetry == InitRetry /\ [][Attempt]_vars

\* --------------------------------------------------------------- the catalog
\* Product.embedding: absent, or a vector (possibly of length 0)
NoEmb == [has |-> FALSE, vec |-> <<>>]
Emb(v) == [has |-> TRUE, vec |-> v]

Product(id, name, embedding) ==
    [id |-> id, name |-> name, localName |-> <<>>, category |-> <<>>,
     metadataText |-> <<>>, embedding |-> embedding]

\* the vectors an embedding provider returns
V10 == <<1, 0>>
V01 == <<0, 1>>
V11 == <<1, 1>>
VNeg == <<-1, 0>>

\* HasEmbedding with the length test inverted
HasEmbedding_Inverted(p) == p.embedding.has /\ Len(p.embedding.vec) = 0

\* p.embedding && p.embedding.length > 0
HasEmbedding(p) == p.embedding.has /\ Len(p.embedding.vec) > 0

Min(a, b) == IF a < b THEN a ELSE b

\* String.prototype.trim
RECURSIVE TrimLeft(_)
TrimLeft(s) ==
    IF Len(s) > 0 /\ s[1] = " " THEN TrimLeft(Tail(s)) ELSE s
RECURSIVE TrimRight(_)
TrimRight(s) ==
    IF Len(s) > 0 /\ s[Len(s)] = " "
    THEN TrimRight(SubSeq(s, 1, Len(s) - 1)) ELSE s
trim(s) == TrimLeft(TrimRight(s))

\* `${name} ${localName} ${category || ''} ${metadataText}`.trim()
TextToEmbed(p) ==
    trim(p.name \o <<" ">> \o p.localName \o <<" ">> \o p.category
         \o <<" ">> \o p.metadataText)

\* ------------------------------------------------------------- configuration
getEffectiveKey_AnyDefault(c) ==
    IF c.apiKey # "" THEN c.apiKey
    ELSE IF env.API_KEY # "" THEN env.API_KEY
    ELSE env.OPENAI_API_KEY

getEffectiveKey(c) ==
    IF c.apiKey # "" THEN c.apiKey
    ELSE IF c.provider = "gemini" THEN env.API_KEY
    ELSE IF c.provider = "openai" THEN env.OPENAI_API_KEY
    ELSE ""

Providers == {"gemini", "openai"}

\* the configurations explored: either provider, an explicit key or none, and
\* a process-level default for gemini, for openai or for neither
InitConfig ==
    /\ config \in [provider : Providers, apiKey : {"", "user-key"}]
    /\ env \in {NoEnv,
                Env("env-gemini", "", ""),
                Env("", "env-openai", "")}

\* ------------------------------------------------------ the Embedding Indexer
IndexBatchSize == IF config.provider = "openai" THEN IndexBatchOpenAI ELSE IndexBatchOther
IndexDelay == IF config.provider = "openai" THEN IndexDelayOpenAI ELSE IndexDelayOther

Batch_ToEnd(i) == (i + 1)..Len(db)

\* the products of the batch that starts at index i (0-based, as slice does)
Batch(i) == (i + 1)..Min(i + IndexBatchSize, Len(db))

\* what one embedding call can do: embedTextOpenAI returns
\* data.data[0].embedding or throws; embedTextGemini returns the values or []
EmbedValues(provider) ==
    IF provider = "openai" THEN {V10} ELSE {V10, <<>>}
EmbedErrors == {ErrRateLimit, ErrAuth}

CallbackStart_NoSkip(r) ==
    IF TextToEmbed(db[r]) = <<>> THEN "notext" ELSE "inflight"

\* the callback of Promise.all up to its first await, for product r: it
\* returns at once for a product that has an embedding or no text, otherwise
\* retryOperation invokes the embedding call
CallbackStart(r) ==
    IF HasEmbedding(db[r]) THEN "skipped"
    ELSE IF TextToEmbed(db[r]) = <<>> THEN "notext"
    ELSE "inflight"

\* batch.every(p => p.embedding && p.embedding.length > 0)
AllEmbedded(i) == \A r \in Batch(i) : HasEmbedding(db[r])

\* const apiKey = getEffectiveKey(config); if (!apiKey) throw ...
IndexKeyMissing == getEffectiveKey(config) = ""

\* the application awaits the Indexer before it processes invoices: the two
\* operations are called one after the other, never while the other runs
IndexSettled == ixPc \in {"idle", "done", "threw"}
PipeSettled == pPc \in {"idle", "done", "threw"}

IndexStart ==
    /\ ixPc = "idle"
    /\ PipeSettled
    /\ IF IndexKeyMissing
       THEN /\ ixPc' = "threw"
            /\ ixErr' = "API Key required for indexing"
       ELSE /\ ixPc' = "loop"
            /\ ixErr' = ixErr
    /\ UNCHANGED <<retryVars, parseVars, appVars, nearVars, pipeVars, cfgVars, db, db0, remote,
                   ixI, ixSt, ixH, ixRet, ixSleeps, ixProgress>>

\* the loop condition fails: return updatedProducts
IndexReturn ==
    /\ ixPc = "loop"
    /\ ixI >= Len(db)
    /\ ixPc' = "done"
    /\ UNCHANGED <<retryVars, parseVars, appVars, nearVars, pipeVars, cfgVars, db, db0, remote,
                   ixI, ixSt, ixH, ixRet, ixSleeps, ixProgress, ixErr>>

\* a batch whose every member has an embedding: progress, continue
IndexSkipBatch ==
    /\ ixPc = "loop"
    /\ ixI < Len(db)
    /\ AllEmbedded(ixI)
    /\ ixProgress' = Append(ixProgress,
                            <<Min(ixI + IndexBatchSize, Len(db)), Len(db)>>)
    /\ ixI' = ixI + IndexBatchSize
    /\ UNCHANGED <<retryVars, parseVars, appVars, nearVars, pipeVars, cfgVars, db, db0, remote,
                   ixPc, ixSt, ixH, ixRet, ixSleeps, ixErr>>

\* any other batch: Promise.all starts the callback of every member
IndexStartBatch ==
    /\ ixPc = "loop"
    /\ ixI < Len(db)
    /\ ~AllEmbedded(ixI)
    /\ ixSt' = [r \in 1..Len(db) |->
                  IF r \in Batch(ixI) THEN CallbackStart(r) ELSE ixSt[r]]
    /\ ixH' = [r \in 1..Len(db) |->
                  IF r \in Batch(ixI) /\ CallbackStart(r) = "inflight"
                  THEN RetryStart(DefaultMaxRetries, DefaultInitialDelay)
                  ELSE ixH[r]]
    /\ remote' = remote
                 + Cardinality({r \in Batch(ixI) : CallbackStart(r) = "inflight"})
    /\ ixPc' = "await"
    /\ UNCHANGED <<retryVars, parseVars, appVars, nearVars, pipeVars, cfgVars, db, db0,
                   ixI, ixRet, ixSleeps, ixProgress, ixErr>>

\* EmbedSettleWith without the try/catch around retryOperation: the error of
\* one call rejects Promise.all and generateEmbeddingsForDatabase throws
EmbedSettleWith_NoCatch(r, o) ==
    LET hh == RetryStep(ixH[r], DefaultMaxRetries, o)
    IN  /\ ixH' = [ixH EXCEPT ![r] = IF hh.status = "running" THEN hh
                                      ELSE RetryStart(DefaultMaxRetries,
                                                      DefaultInitialDelay)]
        /\ IF hh.status = "returned"
           THEN /\ db' = [db EXCEPT ![r].embedding = Emb(hh.value)]
                /\ ixRet' = [ixRet EXCEPT ![r] = Emb(hh.value)]
                /\ ixSt' = [ixSt EXCEPT ![r] = "ok"]
                /\ UNCHANGED <<remote, ixPc, ixErr>>
           ELSE IF hh.status = "threw"
           THEN /\ ixSt' = [ixSt EXCEPT ![r] = "failed"]
                /\ ixPc' = "threw"
                /\ ixErr' = "embedding failed"
                /\ UNCHANGED <<db, ixRet, remote>>
           ELSE /\ remote' = remote + 1
                /\ UNCHANGED <<db, ixRet, ixSt, ixPc, ixErr>>

\* the embedding call of product r settles with outcome o: retryOperation
\* returns (product.embedding = embedding), throws (caught and logged) or
\* sleeps and invokes the call again.  The frame of a retryOperation that has
\* returned or thrown is gone: its slot goes back to the initial value.
EmbedSettleWith(r, o) ==
    LET hh == RetryStep(ixH[r], DefaultMaxRetries, o)
    IN  /\ ixH' = [ixH EXCEPT ![r] = IF hh.status = "running" THEN hh
                                      ELSE RetryStart(DefaultMaxRetries,
                                                      DefaultInitialDelay)]
        /\ UNCHANGED <<ixPc, ixErr>>
        /\ IF hh.status = "returned"
           THEN /\ db' = [db EXCEPT ![r].embedding = Emb(hh.value)]
                /\ ixRet' = [ixRet EXCEPT ![r] = Emb(hh.value)]
                /\ ixSt' = [ixSt EXCEPT ![r] = "ok"]
                /\ remote' = remote
           ELSE IF hh.status = "threw"
           THEN /\ ixSt' = [ixSt EXCEPT ![r] = "failed"]
                /\ UNCHANGED <<db, ixRet, remote>>
           ELSE /\ remote' = remote + 1
                /\ UNCHANGED <<db, ixRet, ixSt>>

EmbedSettle ==
    /\ ixPc = "await"
    /\ \E r \in Batch(ixI) :
         /\ ixSt[r] = "inflight"
         /\ \/ \E v \in EmbedValues(config.provider) : EmbedSettleWith(r, Ok(v))
            \/ \E e \in EmbedErrors : EmbedSettleWith(r, Fail(e))
    /\ UNCHANGED <<retryVars, parseVars, appVars, nearVars, pipeVars, cfgVars, db0, ixI, ixSleeps, ixProgress>>

\* Promise.all resolves: progress, the inter-batch sleep, next batch
IndexJoinBatch ==
    /\ ixPc = "await"
    /\ \A r \in Batch(ixI) : ixSt[r] # "inflight"
    /\ ixProgress' = Append(ixProgress,
                            <<Min(ixI + IndexBatchSize, Len(db)), Len(db)>>)
    /\ ixSleeps' = Append(ixSleeps, IndexDelay)
    /\ ixI' = ixI + IndexBatchSize
    /\ ixPc' = "loop"
    /\ UNCHANGED <<retryVars, parseVars, appVars, nearVars, pipeVars, cfgVars, db, db0, remote,
                   ixSt, ixH, ixRet, ixErr>>

IndexNext ==
    \/ IndexStart
    \/ IndexReturn
    \/ IndexSkipBatch
    \/ IndexStartBatch
    \/ EmbedSettle
    \/ IndexJoinBatch

\* the catalogs explored: up to MaxCatalog products, each with or without a
\* name (a product without a name has no derived text) and with an embedding
\* that is absent, empty or a vector
ProductChoices(id) ==
    {Product(id, <<"T">>, e) : e \in {NoEmb, Emb(<<>>), Emb(V11)}}
    \cup {Product(id, <<>>, NoEmb)}
Catalogs ==
    UNION {{c \in [1..n -> UNION {ProductChoices(id) : id \in 1..n}] :
               \A r \in 1..n : c[r].id = r} : n \in 0..MaxCatalog}

\* every catalog with the explicit key alone or with no key at all; the
\* configurations that resolve the key through a default add nothing after
\* the key check and are explored with the catalogs of at most one product
InitCatalog ==
    /\ db \in Catalogs
    /\ Len(db) > 1 =>
          \/ getEffectiveKey(config) = ""
          \/ config.apiKey # "" /\ env = NoEnv

InitIndex ==
    /\ IdleRetry
    /\ IdleNear
    /\ IdlePipe
    /\ IdleParse
    /\ IdleApp
    /\ InitConfig
    /\ InitCatalog
    /\ db0 = db
    /\ remote = 0
    /\ ixPc = "idle"
    /\ ixI = 0
    /\ ixSt = [r \in 1..Len(db) |-> "idle"]
    /\ ixH = [r \in 1..Len(db) |-> RetryStart(DefaultMaxRetries, DefaultInitialDelay)]
    /\ ixRet = [r \in 1..Len(db) |-> NoEmb]
    /\ ixSleeps = <<>>
    /\ ixProgress = <<>>
    /\ ixErr = ""

SpecIndex == InitIndex /\ [][IndexNext]_vars

\* ------------------------------------------------ indexing of long catalogs
\* the largest number of openai batches explored
MaxIndexBatches == 2

\* the records of a long catalog that may lack an embedding: the first one,
\* and the last of a batch of 20 and its successor
LongUnindexed ==
    {1} \cup UNION {{IndexBatchOpenAI * c, IndexBatchOpenAI * c + 1} :
                       c \in 1..(MaxIndexBatches - 1)}

\* catalogs of one record more than fit the openai batches before the last,
\* every record indexed but some of LongUnindexed
LongCatalogs ==
    {[r \in 1..(IndexBatchOpenAI * (MaxIndexBatches - 1) + 1) |->
         Product(r, <<"T">>, IF r \in u THEN NoEmb ELSE Emb(V11))] :
       u \in (SUBSET LongUnindexed) \ {{}}}

InitIndexLong ==
    /\ IdleRetry
    /\ IdleNear
    /\ IdlePipe
    /\ IdleParse
    /\ IdleApp
    /\ config \in {[provider |-> pr, apiKey |-> "user-key"] : pr \in Providers}
    /\ env = NoEnv
    /\ db \in LongCatalogs
    /\ db0 = db
    /\ remote = 0
    /\ ixPc = "idle"
    /\ ixI = 0
    /\ ixSt = [r \in 1..Len(db) |-> "idle"]
    /\ ixH = [r \in 1..Len(db) |-> RetryStart(DefaultMaxRetries, DefaultInitialDelay)]
    /\ ixRet = [r \in 1..Len(db) |-> NoEmb]
    /\ ixSleeps = <<>>
    /\ ixProgress = <<>>
    /\ ixErr = ""

SpecIndexLong == InitIndexLong /\ [][IndexNext]_vars


\* ------------------------------------------------------ Candidate Retriever
RECURSIVE SumSeq(_)
SumSeq(s) == IF s = <<>> THEN 0 ELSE s[1] + SumSeq(Tail(s))

\* cosineSimilarity(vecA, vecB) = dot / (|vecA| * |vecB|), as JavaScript
\* computes it.  vecB[i] is undefined past the end of vecB and the product
\* with undefined is NaN; 0 / 0 is NaN.  A number is kept exactly, as the dot
\* product and the two squared magnitudes.
cosineSimilarity(vecA, vecB) ==
    LET dotNaN == Len(vecA) > Len(vecB)
        dot == IF dotNaN THEN 0
               ELSE SumSeq([i \in 1..Len(vecA) |-> vecA[i] * vecB[i]])
        a2 == SumSeq([i \in 1..Len(vecA) |-> vecA[i] * vecA[i]])
        b2 == SumSeq([i \in 1..Len(vecB) |-> vecB[i] * vecB[i]])
    IN  [nan |-> dotNaN \/ a2 = 0 \/ b2 = 0, dot |-> dot, a2 |-> a2, b2 |-> b2]

\* x < y for two similarities to the same query that are numbers:
\* x.dot / sqrt(x.b2) < y.dot / sqrt(y.b2), decided on the squares
NumLess(x, y) ==
    IF x.dot < 0 /\ y.dot >= 0 THEN TRUE
    ELSE IF x.dot >= 0 /\ y.dot < 0 THEN FALSE
    ELSE IF x.dot >= 0 THEN x.dot * x.dot * y.b2 < y.dot * y.dot * x.b2
    ELSE x.dot * x.dot * y.b2 > y.dot * y.dot * x.b2

\* the comparator (a, b) => b.similarity - a.similarity as sort reads it:
\* negative (a first), positive (b first), and 0 for 0 and for NaN
Comparator(a, b) ==
    IF a.nan \/ b.nan THEN 0
    ELSE IF NumLess(b, a) THEN -1
    ELSE IF NumLess(a, b) THEN 1
    ELSE 0

Perms(n) == {p \in [1..n -> 1..n] : \A i, j \in 1..n : i # j => p[i] # p[j]}

\* the comparator is a consistent comparator for the values of e (ECMAScript
\* Array.prototype.sort): being equal, before and after are transitive
ConsistentComparator(e) ==
    \A i, j, k \in 1..Len(e) :
        /\ (Comparator(e[i], e[j]) = 0 /\ Comparator(e[j], e[k]) = 0)
              => Comparator(e[i], e[k]) = 0
        /\ (Comparator(e[i], e[j]) < 0 /\ Comparator(e[j], e[k]) < 0)
              => Comparator(e[i], e[k]) < 0
        /\ (Comparator(e[i], e[j]) > 0 /\ Comparator(e[j], e[k]) > 0)
              => Comparator(e[i], e[k]) > 0

\* Array.prototype.sort on the similarities e: the orders it may produce, as
\* permutations of positions.  With a consistent comparator the sort is
\* stable and its result unique; otherwise the order is implementation
\* defined.
SortOrders(e) ==
    IF ConsistentComparator(e)
    THEN {p \in Perms(Len(e)) :
            \A i, j \in 1..Len(e) :
               i < j => \/ Comparator(e[p[i]], e[p[j]]) < 0
                        \/ Comparator(e[p[i]], e[p[j]]) = 0 /\ p[i] < p[j]}
    ELSE Perms(Len(e))

\* IsTruthyEmbedding testing a field every product has (p.id for p.embedding)
IsTruthyEmbedding_WrongField(p) == p.id # 0

\* the truthiness test p.embedding of some() and filter(): an array, even an
\* empty one, is truthy
IsTruthyEmbedding(p) == p.embedding.has

\* positions of database, in order, that pass filter(p => p.embedding)
RECURSIVE FilterEmbedded(_, _)
FilterEmbedded(database, r) ==
    IF r > Len(database) THEN <<>>
    ELSE IF IsTruthyEmbedding(database[r])
         THEN <<r>> \o FilterEmbedded(database, r + 1)
         ELSE FilterEmbedded(database, r + 1)

\* Array.prototype.slice(0, k) for k >= 0
Slice0(s, k) == SubSeq(s, 1, Min(k, Len(s)))

\* findNearestNeighbors(queryEmbedding, database, k): the lists of products
\* (positions in database) it may return
findNearestNeighbors(queryEmbedding, database, k) ==
    IF ~(\E r \in 1..Len(database) : IsTruthyEmbedding(database[r]))
    THEN {<<>>}
    ELSE LET items == FilterEmbedded(database, 1)
             sims == [i \in 1..Len(items) |->
                         cosineSimilarity(queryEmbedding,
                                          database[items[i]].embedding.vec)]
         IN  {Slice0([i \in 1..Len(items) |-> items[p[i]]], k) :
                 p \in SortOrders(sims)}

\* VectorSearch without the test of the query's length
VectorSearch_NoGuard(queryEmbedding, database) ==
    findNearestNeighbors(queryEmbedding, database, TopK)

\* the vector search of mapItemsWithRAG:
\* queryEmbedding.length > 0 ? findNearestNeighbors(queryEmbedding, database, 5) : []
VectorSearch(queryEmbedding, database) ==
    IF Len(queryEmbedding) > 0
    THEN findNearestNeighbors(queryEmbedding, database, TopK)
    ELSE {<<>>}

\* ------------------------------------- specification: the Candidate Retriever
\* the catalogs searched: products whose embedding is absent, empty (as the
\* Indexer stores after a reply without values) or a vector
NearCatalogs ==
    UNION {{c \in [1..n -> {Product(id, <<"T">>, e) :
                               id \in 1..n,
                               e \in {NoEmb, Emb(<<>>), Emb(V10), Emb(V01),
                                      Emb(V11)}}] :
               \A r \in 1..n : c[r].id = r} : n \in 0..MaxNearCatalog}

\* the query vectors: an embedding, or the empty vector of a failed embedding
Queries == {<<>>, V10, V01, V11, VNeg}

InitNearest ==
    /\ IdleRetry
    /\ IdlePipe
    /\ IdleParse
    /\ IdleApp
    /\ IdleConfig
    /\ db \in NearCatalogs
    /\ db0 = db
    /\ remote = 0
    /\ ixPc = "idle"
    /\ ixI = 0
    /\ ixSt = <<>>
    /\ ixH = <<>>
    /\ ixRet = <<>>
    /\ ixSleeps = <<>>
    /\ ixProgress = <<>>
    /\ ixErr = ""
    /\ nQ \in Queries
    /\ nK \in 0..MaxK
    /\ nPc = "idle"
    /\ nRes = <<>>
    /\ nCandPc = "idle"
    /\ nCand = <<>>

\* a call of the exported findNearestNeighbors(nQ, db, nK)
NearestCall ==
    /\ nPc = "idle"
    /\ nRes' \in findNearestNeighbors(nQ, db, nK)
    /\ nPc' = "done"
    /\ UNCHANGED <<retryVars, parseVars, appVars, cfgVars, db, db0, remote, indexVars, pipeVars,
                   nQ, nK, nCandPc, nCand>>

\* the vector search of mapItemsWithRAG for the query embedding nQ
VectorSearchCall ==
    /\ nCandPc = "idle"
    /\ nCand' \in VectorSearch(nQ, db)
    /\ nCandPc' = "done"
    /\ UNCHANGED <<retryVars, parseVars, appVars, cfgVars, db, db0, remote, indexVars, pipeVars,
                   nQ, nK, nPc, nRes>>

NearestNext == NearestCall \/ VectorSearchCall

SpecNearest == InitNearest /\ [][NearestNext]_vars


\* ---------------------------------------------------------- the table parser
MaxRows == 2

\* a JavaScript number as parseFloat yields it from digits and dots: NaN, or
\* the integer part and the fraction digits (trailing zeros dropped)
NaN == [nan |-> TRUE, int |-> 0, frac |-> <<>>]
Num(int, frac) == [nan |-> FALSE, int |-> int, frac |-> frac]

Digits == <<"0", "1", "2", "3", "4", "5", "6", "7", "8", "9">>
IsDigitChar(c) == \E d \in 1..10 : Digits[d] = c
DigitVal(c) == (CHOOSE d \in 1..10 : Digits[d] = c) - 1

\* String.prototype.split(sep) for a one-character separator
RECURSIVE split(_, _)
split(s, sep) ==
    IF \E k \in 1..Len(s) : s[k] = sep
    THEN LET k == CHOOSE x \in 1..Len(s) :
                     s[x] = sep /\ \A y \in 1..(x - 1) : s[y] # sep
         IN  <<SubSeq(s, 1, k - 1)>> \o split(SubSeq(s, k + 1, Len(s)), sep)
    ELSE <<s>>

startsWith(s, c) == Len(s) > 0 /\ s[1] = c

\* cell.replace(/[^0-9.]/g, '')
IsNumericChar(c) == IsDigitChar(c) \/ c = "."
StripNonNumeric(s) == SelectSeq(s, IsNumericChar)

RECURSIVE TakeDigits(_)
TakeDigits(s) ==
    IF Len(s) > 0 /\ IsDigitChar(s[1]) THEN <<s[1]>> \o TakeDigits(Tail(s)) ELSE <<>>

RECURSIVE DigitsToInt(_)
DigitsToInt(ds) ==
    IF ds = <<>> THEN 0
    ELSE 10 * DigitsToInt(SubSeq(ds, 1, Len(ds) - 1)) + DigitVal(ds[Len(ds)])

RECURSIVE DropTrailingZeros(_)
DropTrailingZeros(ds) ==
    IF Len(ds) > 0 /\ ds[Len(ds)] = "0"
    THEN DropTrailingZeros(SubSeq(ds, 1, Len(ds) - 1)) ELSE ds

\* parseFloat of a string of digits and dots: the longest prefix
\* digits [ "." digits ], NaN when that prefix holds no digit
parseFloat(s) ==
    LET ip == TakeDigits(s)
        rest == SubSeq(s, Len(ip) + 1, Len(s))
        fp == IF startsWith(rest, ".") THEN TakeDigits(Tail(rest)) ELSE <<>>
    IN  IF ip = <<>> /\ fp = <<>> THEN NaN
        ELSE Num(DigitsToInt(ip), DropTrailingZeros(fp))

\* v || d: NaN and 0 are falsy
OrDefault(v, d) ==
    IF v.nan \/ (v.int = 0 /\ v.frac = <<>>) THEN Num(d, <<>>) ELSE v

SDashes == <<"-", "-", "-">>
SDescription == <<"d", "e", "s", "c", "r", "i", "p", "t", "i", "o", "n">>
SQuantity == <<"q", "u", "a", "n", "t", "i", "t", "y">>

NonEmpty(c) == c # <<>>
\* line.split('|').map(c => c.trim()).filter(c => c !== '')
Cols(line) ==
    LET parts == split(line, "|")
    IN  SelectSeq([k \in 1..Len(parts) |-> trim(parts[k])], NonEmpty)

RawItem(cols) ==
    [raw_name |-> cols[1],
     raw_quantity |-> OrDefault(parseFloat(StripNonNumeric(cols[2])), 1),
     raw_price |-> OrDefault(parseFloat(StripNonNumeric(cols[3])), 0)]

\* one iteration of `for (const line of lines)`: inTable and items after it
ParseLineStep(line, inTable, items) ==
    IF includes(line, <<"|">>) /\ includes(line, SDashes)
    THEN [inTable |-> TRUE, items |-> items]
    ELSE IF /\ ~inTable
            /\ includes(line, <<"|">>)
            /\ \/ includes(toLowerCase(line), SDescription)
               \/ includes(toLowerCase(line), SQuantity)
    THEN [inTable |-> inTable, items |-> items]
    ELSE IF startsWith(trim(line), "|")
    THEN LET cols == Cols(line)
         IN  IF /\ Len(cols) >= 3
                /\ ~includes(cols[1], SDashes)
                /\ toLowerCase(cols[1]) # SDescription
             THEN [inTable |-> inTable, items |-> Append(items, RawItem(cols))]
             ELSE [inTable |-> inTable, items |-> items]
    ELSE [inTable |-> inTable, items |-> items]

\* the whole loop, from line i + 1 on
RECURSIVE ParseFrom(_, _, _, _)
ParseFrom(lines, i, inTable, items) ==
    IF i >= Len(lines) THEN items
    ELSE LET st == ParseLineStep(lines[i + 1], inTable, items)
         IN  ParseFrom(lines, i + 1, st.inTable, st.items)

\* textResponse -> items
ParseTable(text) == ParseFrom(split(text, "\n"), 0, FALSE, <<>>)

\* const items = []; const lines = textResponse.split('\n'); let inTable = false
ParseStart ==
    /\ tPc = "idle"
    /\ tPc' = "loop"
    /\ tLines' = split(tText, "\n")
    /\ tI' = 0
    /\ tInTable' = FALSE
    /\ tItems' = <<>>
    /\ UNCHANGED <<retryVars, appVars, nearVars, pipeVars, cfgVars, db, db0,
                   remote, indexVars, tText>>

ParseLine ==
    /\ tPc = "loop"
    /\ tI < Len(tLines)
    /\ LET st == ParseLineStep(tLines[tI + 1], tInTable, tItems)
       IN  /\ tInTable' = st.inTable
           /\ tItems' = st.items
    /\ tI' = tI + 1
    /\ UNCHANGED <<retryVars, appVars, nearVars, pipeVars, cfgVars, db, db0,
                   remote, indexVars, tText, tPc, tLines>>

\* return items
ParseReturn ==
    /\ tPc = "loop"
    /\ tI >= Len(tLines)
    /\ tPc' = "done"
    /\ UNCHANGED <<retryVars, appVars, nearVars, pipeVars, cfgVars, db, db0,
                   remote, indexVars, tText, tLines, tI, tInTable, tItems>>

ParseNext ==
    \/ ParseStart
    \/ ParseLine
    \/ ParseReturn

\* the responses explored: an optional header and separator row, then up to
\* MaxRows rows "| name | quantity | price |", the later rows being fixed
SHeaderRow ==
    <<"|", " ", "D", "e", "s", "c", "r", "i", "p", "t", "i", "o", "n", " ",
      "|", " ", "Q", "u", "a", "n", "t", "i", "t", "y", " ",
      "|", " ", "P", "r", "i", "c", "e", " ", "|">>
SSeparatorRow == <<"|", "-", "-", "-", "|", "-", "-", "-", "|", "-", "-", "-", "|">>
Row(name, quantity, price) ==
    <<"|", " ">> \o name \o <<" ", "|", " ">> \o quantity
                 \o <<" ", "|", " ">> \o price \o <<" ", "|">>
NameCells == {<<"A">>, <<"A", " ", "2", "g">>, <<"A", "-", "-", "-", "B">>}
QuantityCells ==
    {<<"3">>, <<"0">>, <<"N", "/", "A">>, <<"1", ".", "5">>, <<"x", "2">>, <<>>}
PriceCells == {<<"8", "0">>, <<"0">>, <<"$", "7">>, <<"n", "a">>}
RECURSIVE MoreRows(_)
MoreRows(n) == IF n = 0 THEN <<>> ELSE <<"\n">> \o Row(<<"B">>, <<"2">>, <<"5">>) \o MoreRows(n - 1)
Prefixes == {<<>>, SHeaderRow \o <<"\n">> \o SSeparatorRow \o <<"\n">>}
Responses ==
    {pre \o Row(nm, q, pr) \o MoreRows(n) :
       pre \in Prefixes, nm \in NameCells, q \in QuantityCells,
       pr \in PriceCells, n \in 0..(MaxRows - 1)}

InitParse ==
    /\ IdleRetry
    /\ IdleNear
    /\ IdlePipe
    /\ IdleConfig
    /\ IdleIndex
    /\ IdleApp
    /\ tText \in Responses
    /\ tPc = "idle"
    /\ tLines = <<>>
    /\ tI = 0
    /\ tInTable = FALSE
    /\ tItems = <<>>

SpecParse == InitParse /\ [][ParseNext]_vars


\* ------------------------------------------------------- the invoice pipeline
NewCall == RetryStart(DefaultMaxRetries, DefaultInitialDelay)

\* the text a vision call returns (response.text || ""): nothing, a bare row,
\* or a header, a separator and a row
VisionTexts ==
    {<<>>,
     Row(<<"A">>, <<"3">>, <<"8", "0">>),
     SHeaderRow \o <<"\n">> \o SSeparatorRow \o <<"\n">> \o Row(<<"B">>, <<"2">>, <<"5">>)}

\* what the operation wrapped by retryOperation returns: the parsed items
ChunkItems == {ParseTable(t) : t \in VisionTexts}
\* the errors a vision, embedding or synthesis call of the pipeline throws
PipeErrors == {ErrRateLimit, ErrAuth}
\* the query embeddings an embedding call returns
QueryValues(provider) == IF provider = "openai" THEN {V10} ELSE {V10, <<>>}

\* one decision of a synthesis response; matched_product_id 0 is null and
\* the reasoning names the product decided on
Decision(raw_name, id) ==
    [kind |-> "object", raw_name |-> raw_name, matched_product_id |-> id,
     reasoning |-> id + 10]
\* an element of mappings that is no decision: null, or a number
NullElement ==
    [kind |-> "null", raw_name |-> <<>>, matched_product_id |-> 0, reasoning |-> 0]
NumberElement ==
    [kind |-> "number", raw_name |-> <<>>, matched_product_id |-> 0, reasoning |-> 0]

\* the product ids a decision names (0: null)
DecisionIds == {0, 1, 2}

\* the longest chunk whose decisions are varied item by item in a response
MaxVariedReplies == 3

\* the mappings arrays of the conforming responses: no decision, one decision
\* per item (on a long chunk the same one for every item), or a decision on
\* the first item only
Replies(names) ==
    {<<>>}
    \cup (IF Len(names) <= MaxVariedReplies
          THEN {[i \in 1..Len(names) |-> Decision(names[i], f[i])] :
                   f \in [1..Len(names) -> DecisionIds]}
          ELSE {[i \in 1..Len(names) |-> Decision(names[i], id)] :
                   id \in DecisionIds})
    \cup {<<Decision(names[1], id)>> : id \in DecisionIds}

\* the value of the mappings key: an array, a number, or no such key
ArrayOf(items) == [kind |-> "array", items |-> items]
NumberValue == [kind |-> "number", items |-> <<>>]
Absent == [kind |-> "absent", items |-> <<>>]
\* a JSON value: null, a number, an array or an object
Json(kind, mappings) == [kind |-> kind, mappings |-> mappings]
\* the text of a response: JSON (or not) that stands alone, inside a
\* markdown code fence, or inside prose
Response(wrap, valid, json) == [wrap |-> wrap, valid |-> valid, json |-> json]

\* the responses of the provider to the synthesis call of a chunk
SynthResponses(names) ==
    {Response("bare", TRUE, Json("object", ArrayOf(m))) : m \in Replies(names)}
    \cup {Response(w, TRUE, Json("object", ArrayOf(<<Decision(names[1], 1)>>))) :
             w \in {"fenced", "prose"}}
    \cup {Response("bare", FALSE, Json("null", Absent)),
          Response("bare", TRUE, Json("null", Absent)),
          Response("prose", TRUE, Json("null", Absent)),
          Response("bare", TRUE, Json("number", Absent)),
          Response("bare", TRUE, Json("array", Absent)),
          Response("bare", TRUE, Json("object", Absent)),
          Response("bare", TRUE, Json("object", NumberValue)),
          Response("bare", TRUE, Json("object", ArrayOf(<<NullElement>>)))}

\* { mappings: [] }
Fallback == Json("object", ArrayOf(<<>>))

\* safeJSONParse: the code fences are removed, the outermost {...} or [...]
\* is cut out when there is one, and JSON.parse is applied; the fallback is
\* returned when JSON.parse throws (text that is no JSON, prose around a
\* value that is neither object nor array)
safeJSONParse(r, fallback) ==
    IF ~r.valid THEN fallback
    ELSE IF r.wrap = "prose" /\ r.json.kind \notin {"object", "array"} THEN fallback
    ELSE r.json

\* TypeError: Cannot read properties of null (reading 'mappings')
ErrNullResponse == Err(0, 0, <<"o", "f", " ", "n", "u", "l", "l">>)

\* the operation processChunk hands to retryOperation, from the response on:
\* return safeJSONParse(text, { mappings: [] }).mappings || []
DecodeMappings(r) ==
    LET content == safeJSONParse(r, Fallback)
    IN  IF content.kind = "null" THEN Fail(ErrNullResponse)
        ELSE IF content.kind = "object" /\ content.mappings.kind # "absent"
        THEN Ok(content.mappings)
        ELSE Ok(ArrayOf(<<>>))

\* e.message of what processInvoice throws
PipeErrMessage(error) ==
    IF error = ErrNullResponse
    THEN "Cannot read properties of null (reading 'mappings')"
    ELSE "provider error"

SynthChunkSize == IF config.provider = "openai" THEN SynthChunkOpenAI ELSE SynthChunkOther
NumChunks_Floor(n) == n \div SynthChunkSize

\* the number of chunks the loop i = 0; i < n; i += CHUNK_SIZE pushes
NumChunks(n) == (n + SynthChunkSize - 1) \div SynthChunkSize
\* itemsWithCandidates.slice(i, i + CHUNK_SIZE) for the c-th chunk (names)
ChunkSlice(c) ==
    SubSeq(pItems, (c - 1) * SynthChunkSize + 1, Min(c * SynthChunkSize, Len(pItems)))
\* the raw names the prompt of the c-th chunk lists
ChunkNames(c) ==
    LET chunk == ChunkSlice(c)
    IN  [k \in 1..Len(chunk) |-> chunk[k].raw_name]

\* `API Key required for ${config.provider}`
KeyRequiredFor(provider) ==
    IF provider = "gemini" THEN "API Key required for gemini"
    ELSE "API Key required for openai"

\* extractRawItems: const apiKey = getEffectiveKey(config); if (!apiKey) throw
PipeKeyMissing == getEffectiveKey(config) = ""

\* the chunk loop of extractRawItems is entered: the vision call of the
\* first of n image chunks is in flight, the others have not been reached
ChunkLoopEnter(n) ==
    [c \in 1..n |-> [st |-> IF c = 1 THEN "inflight" ELSE "idle", items |-> <<>>]]

\* the await of chunk c resolves with chunkItems and the loop goes on to the
\* next chunk
ChunkLoopAdvance(chunks, c, chunkItems) ==
    [x \in 1..Len(chunks) |->
        IF x = c THEN [st |-> "settled", items |-> chunkItems]
        ELSE IF x = c + 1 THEN [chunks[x] EXCEPT !.st = "inflight"]
        ELSE chunks[x]]

AppendChunk_Prepend(allItems, chunkItems) == chunkItems \o allItems

\* allItems = [...allItems, ...chunkItems]
AppendChunk(allItems, chunkItems) == allItems \o chunkItems

\* processInvoice is called: extractRawItems checks the key and invokes the
\* vision call of the first image chunk
PStart ==
    /\ pPc = "idle"
    /\ IndexSettled
    /\ IF PipeKeyMissing
       THEN /\ pPc' = "threw"
            /\ pErr' = KeyRequiredFor(config.provider)
            /\ UNCHANGED <<pH, remote, pChunks>>
       ELSE /\ pPc' = "extract"
            /\ pH' = NewCall
            /\ pChunks' = ChunkLoopEnter(pImages)
            /\ remote' = remote + 1
            /\ pErr' = pErr
    /\ UNCHANGED <<retryVars, parseVars, appVars, nearVars, cfgVars, db, db0, indexVars,
                   pImages, pI, pItems, pEmb, pAdj, pResult>>

\* the vision call of chunk pI settles with outcome o; retryOperation returns
\* the chunk's items (allItems = [...allItems, ...chunkItems], next chunk),
\* throws (out of processInvoice) or sleeps and calls again
PExtractSettleWith(o) ==
    LET hh == RetryStep(pH, DefaultMaxRetries, o)
    IN  IF hh.status = "returned"
        THEN /\ pItems' = AppendChunk(pItems, hh.value)
             /\ pChunks' = ChunkLoopAdvance(pChunks, pI + 1, hh.value)
             /\ pI' = pI + 1
             /\ pH' = NewCall
             /\ pErr' = pErr
             /\ IF pI + 1 < pImages
                THEN pPc' = pPc /\ remote' = remote + 1
                ELSE pPc' = "extracted" /\ remote' = remote
        ELSE IF hh.status = "threw"
        THEN /\ pPc' = "threw"
             /\ pErr' = "provider error"
             /\ pH' = NewCall
             /\ UNCHANGED <<pItems, pI, remote, pChunks>>
        ELSE /\ pH' = hh
             /\ remote' = remote + 1
             /\ UNCHANGED <<pItems, pI, pPc, pErr, pChunks>>

PExtractSettle ==
    /\ pPc = "extract"
    /\ \/ \E items \in ChunkItems : PExtractSettleWith(Ok(items))
       \/ \E e \in PipeErrors : PExtractSettleWith(Fail(e))
    /\ UNCHANGED <<retryVars, parseVars, appVars, nearVars, cfgVars, db, db0, indexVars,
                   pImages, pEmb, pAdj, pResult>>

ShortCircuit_Never(rawItems) == FALSE

\* if (rawItems.length === 0) return [];
ShortCircuit(rawItems) == Len(rawItems) = 0

\* extractRawItems has returned: no raw item ends processInvoice with [];
\* otherwise mapItemsWithRAG starts the query embedding call of every item
PSynthesisStart ==
    /\ pPc = "extracted"
    /\ pChunks' = <<>>
    /\ IF ShortCircuit(pItems)
       THEN /\ pPc' = "done"
            /\ pResult' = <<>>
            /\ UNCHANGED <<pEmb, remote>>
       ELSE /\ pPc' = "retrieve"
            /\ pEmb' = [k \in 1..Len(pItems) |->
                          [st |-> "inflight", h |-> NewCall, cands |-> <<>>,
                           caught |-> FALSE]]
            /\ remote' = remote + Len(pItems)
            /\ pResult' = pResult
    /\ UNCHANGED <<retryVars, parseVars, appVars, nearVars, cfgVars, db, db0, indexVars,
                   pImages, pI, pH, pItems, pAdj, pErr>>

PEmbedSettleWith_StaleCandidates(k, o) ==
    LET hh == RetryStep(pEmb[k].h, DefaultMaxRetries, o)
    IN  IF hh.status = "returned"
        THEN /\ \E c \in VectorSearch(hh.value, db) :
                  pEmb' = [pEmb EXCEPT ![k] =
                              [st |-> "settled", h |-> NewCall, cands |-> c,
                               caught |-> FALSE]]
             /\ remote' = remote
        ELSE IF hh.status = "threw"
        THEN /\ \E c \in VectorSearch(V10, db) :
                  pEmb' = [pEmb EXCEPT ![k] =
                              [st |-> "settled", h |-> NewCall, cands |-> c,
                               caught |-> TRUE]]
             /\ remote' = remote
        ELSE /\ pEmb' = [pEmb EXCEPT ![k].h = hh]
             /\ remote' = remote + 1

\* the query embedding call of item k settles: retryOperation returns the
\* vector (vector search), throws (caught: queryEmbedding stays [], no
\* candidates) or calls again
PEmbedSettleWith(k, o) ==
    LET hh == RetryStep(pEmb[k].h, DefaultMaxRetries, o)
    IN  IF hh.status = "returned"
        THEN /\ \E c \in VectorSearch(hh.value, db) :
                  pEmb' = [pEmb EXCEPT ![k] =
                              [st |-> "settled", h |-> NewCall, cands |-> c,
                               caught |-> FALSE]]
             /\ remote' = remote
        ELSE IF hh.status = "threw"
        THEN /\ pEmb' = [pEmb EXCEPT ![k] =
                            [st |-> "settled", h |-> NewCall, cands |-> <<>>,
                             caught |-> TRUE]]
             /\ remote' = remote
        ELSE /\ pEmb' = [pEmb EXCEPT ![k].h = hh]
             /\ remote' = remote + 1

PEmbedSettle ==
    /\ pPc = "retrieve"
    /\ \E k \in 1..Len(pItems) :
         /\ pEmb[k].st = "inflight"
         /\ \/ \E v \in QueryValues(config.provider) : PEmbedSettleWith(k, Ok(v))
            \/ \E e \in PipeErrors : PEmbedSettleWith(k, Fail(e))
    /\ UNCHANGED <<retryVars, parseVars, appVars, nearVars, cfgVars, db, db0, indexVars,
                   pImages, pPc, pI, pH, pItems, pAdj, pResult, pErr, pChunks>>

AllSettled_Any(calls) == \E k \in 1..Len(calls) : calls[k].st = "settled"

\* await Promise.all(rawItems.map(...)): every callback has finished
AllSettled(calls) == \A k \in 1..Len(calls) : calls[k].st = "settled"

\* Promise.all of the retrieval step resolves: the items are chunked and the
\* synthesis calls start, all at once for openai, the first one otherwise
PRetrieveJoin ==
    /\ pPc = "retrieve"
    /\ AllSettled(pEmb)
    /\ pPc' = "adjudicate"
    /\ pAdj' = [c \in 1..NumChunks(Len(pItems)) |->
                  [st |-> IF config.provider = "openai" \/ c = 1
                          THEN "inflight" ELSE "idle",
                   h |-> NewCall, res |-> ArrayOf(<<>>)]]
    /\ remote' = remote + (IF config.provider = "openai"
                           THEN NumChunks(Len(pItems)) ELSE 1)
    /\ UNCHANGED <<retryVars, parseVars, appVars, nearVars, cfgVars, db, db0, indexVars,
                   pImages, pI, pH, pItems, pEmb, pResult, pErr, pChunks>>

\* the synthesis call of chunk c settles: retryOperation returns the decoded
\* mappings (and the serial loop starts the next chunk), throws (out of
\* processInvoice) or calls again
PAdjSettleWith(c, o) ==
    LET hh == RetryStep(pAdj[c].h, DefaultMaxRetries, o)
        serialNext == config.provider # "openai" /\ c < Len(pAdj)
    IN  IF hh.status = "returned"
             /\ config.provider # "openai" /\ hh.value.kind # "array"
        THEN \* [...finalMappedResults, ...res] of the serial loop
             /\ pPc' = "threw"
             /\ pErr' = "res is not iterable"
             /\ UNCHANGED <<pAdj, remote>>
        ELSE IF hh.status = "returned"
        THEN /\ pAdj' = [x \in 1..Len(pAdj) |->
                           IF x = c
                           THEN [st |-> "settled", h |-> NewCall, res |-> hh.value]
                           ELSE IF serialNext /\ x = c + 1
                           THEN [pAdj[x] EXCEPT !.st = "inflight"]
                           ELSE pAdj[x]]
             /\ remote' = remote + (IF serialNext THEN 1 ELSE 0)
             /\ UNCHANGED <<pPc, pErr>>
        ELSE IF hh.status = "threw"
        THEN /\ pPc' = "threw"
             /\ pErr' = PipeErrMessage(hh.error)
             /\ UNCHANGED <<pAdj, remote>>
        ELSE /\ pAdj' = [pAdj EXCEPT ![c].h = hh]
             /\ remote' = remote + 1
             /\ UNCHANGED <<pPc, pErr>>

PAdjSettle ==
    /\ pPc = "adjudicate"
    /\ \E c \in 1..Len(pAdj) :
         /\ pAdj[c].st = "inflight"
         /\ \/ \E r \in SynthResponses(ChunkNames(c)) :
                  PAdjSettleWith(c, DecodeMappings(r))
            \/ \E e \in PipeErrors : PAdjSettleWith(c, Fail(e))
    /\ UNCHANGED <<retryVars, parseVars, appVars, nearVars, cfgVars, db, db0, indexVars,
                   pImages, pI, pH, pItems, pEmb, pResult, pChunks>>

\* what a chunk's result adds to finalMappedResults: results.flat() keeps a
\* result that is no array as one element
Elements(res) == IF res.kind = "array" THEN res.items ELSE <<NumberElement>>

\* finalMappedResults: the chunks' mappings, concatenated in chunk order
RECURSIVE FinalMapped(_)
FinalMapped(c) ==
    IF c > Len(pAdj) THEN <<>> ELSE Elements(pAdj[c].res) \o FinalMapped(c + 1)

\* find reads m.raw_name of each element up to the first match: a null
\* element before it is a TypeError
FindThrows(mapped, raw_name) ==
    \E i \in 1..Len(mapped) :
        /\ mapped[i].kind = "null"
        /\ \A j \in 1..(i - 1) : mapped[j].raw_name # raw_name

FindDecision_Last(mapped, raw_name) ==
    IF \E i \in 1..Len(mapped) : mapped[i].raw_name = raw_name
    THEN CHOOSE i \in 1..Len(mapped) :
            /\ mapped[i].raw_name = raw_name
            /\ \A j \in (i + 1)..Len(mapped) : mapped[j].raw_name # raw_name
    ELSE 0

\* finalMappedResults.find(m => m.raw_name === raw_name): its position, or 0
FindDecision(mapped, raw_name) ==
    IF \E i \in 1..Len(mapped) : mapped[i].raw_name = raw_name
    THEN CHOOSE i \in 1..Len(mapped) :
            /\ mapped[i].raw_name = raw_name
            /\ \A j \in 1..(i - 1) : mapped[j].raw_name # raw_name
    ELSE 0

MergeItem_ByPosition(k) ==
    LET mapped == FinalMapped(1)
        d == IF k <= Len(mapped) THEN k ELSE 0
    IN  [raw_name |-> pItems[k].raw_name,
         raw_quantity |-> pItems[k].raw_quantity,
         raw_price |-> pItems[k].raw_price,
         matched_product_id |-> IF d = 0 THEN 0 ELSE mapped[d].matched_product_id,
         reasoning |-> IF d = 0 THEN 0 ELSE mapped[d].reasoning,
         candidates |-> pEmb[k].cands]

MergeItem_KeepFirstCandidate(k) ==
    LET mapped == FinalMapped(1)
        d == FindDecision(mapped, pItems[k].raw_name)
    IN  [raw_name |-> pItems[k].raw_name,
         raw_quantity |-> pItems[k].raw_quantity,
         raw_price |-> pItems[k].raw_price,
         matched_product_id |-> IF d = 0 THEN 1 ELSE mapped[d].matched_product_id,
         reasoning |-> IF d = 0 THEN 0 ELSE mapped[d].reasoning,
         candidates |-> pEmb[k].cands]

\* the merge: decision?.matched_product_id || null, decision?.reasoning
\* (0: undefined), and the candidates of the retrieval step
MergeItem(k) ==
    LET mapped == FinalMapped(1)
        d == FindDecision(mapped, pItems[k].raw_name)
    IN  [raw_name |-> pItems[k].raw_name,
         raw_quantity |-> pItems[k].raw_quantity,
         raw_price |-> pItems[k].raw_price,
         matched_product_id |-> IF d = 0 THEN 0 ELSE mapped[d].matched_product_id,
         reasoning |-> IF d = 0 THEN 0 ELSE mapped[d].reasoning,
         candidates |-> pEmb[k].cands]

\* every chunk has its mappings: merge and return
PMerge ==
    /\ pPc = "adjudicate"
    /\ \A c \in 1..Len(pAdj) : pAdj[c].st = "settled"
    /\ IF \E k \in 1..Len(pItems) : FindThrows(FinalMapped(1), pItems[k].raw_name)
       THEN /\ pPc' = "threw"
            /\ pErr' = "Cannot read properties of null (reading 'raw_name')"
            /\ pResult' = pResult
       ELSE /\ pResult' = [k \in 1..Len(pItems) |-> MergeItem(k)]
            /\ pPc' = "done"
            /\ pErr' = pErr
    /\ UNCHANGED <<retryVars, parseVars, appVars, nearVars, cfgVars, db, db0, remote,
                   indexVars, pImages, pI, pH, pItems, pEmb, pAdj, pChunks>>

PipeNext ==
    \/ PStart
    \/ PExtractSettle
    \/ PSynthesisStart
    \/ PEmbedSettle
    \/ PRetrieveJoin
    \/ PAdjSettle
    \/ PMerge

\* the catalogs the pipeline is run against
PipeCatalogs ==
    {<<Product(1, <<"T">>, Emb(V10)), Product(2, <<"T">>, Emb(V01))>>,
     <<Product(1, <<"T">>, NoEmb)>>}

\* as for the Indexer, the configurations that resolve the key through a
\* default are explored with an invoice of one image chunk, and invoices of
\* more than two chunks with the serial provider and the catalog of one
\* product
InitPipe ==
    /\ IdleRetry
    /\ IdleParse
    /\ IdleApp
    /\ IdleNear
    /\ InitConfig
    /\ db \in PipeCatalogs
    /\ db0 = db
    /\ remote = 0
    /\ ixPc = "idle"
    /\ ixI = 0
    /\ ixSt = [r \in 1..Len(db) |-> "idle"]
    /\ ixH = [r \in 1..Len(db) |-> NewCall]
    /\ ixRet = [r \in 1..Len(db) |-> NoEmb]
    /\ ixSleeps = <<>>
    /\ ixProgress = <<>>
    /\ ixErr = ""
    /\ pImages \in 1..MaxImages
    /\ pImages > 1 =>
          \/ getEffectiveKey(config) = ""
          \/ config.apiKey # "" /\ env = NoEnv
    /\ pImages > 2 =>
          \/ getEffectiveKey(config) = ""
          \/ config.provider = "gemini" /\ Len(db) = 1
    /\ pPc = "idle"
    /\ pI = 0
    /\ pH = NewCall
    /\ pItems = <<>>
    /\ pEmb = <<>>
    /\ pAdj = <<>>
    /\ pResult = <<>>
    /\ pErr = ""
    /\ pChunks = <<>>

SpecPipe == InitPipe /\ [][PipeNext]_vars


\* ------------------------------------------------- the two service operations
ServiceNext ==
    \/ IndexNext
    \/ PipeNext

\* ------------------------------------------- synthesis of long invoices
\* the largest number of synthesis chunks explored
MaxSynthChunks == 2

\* the k-th raw item of a long invoice: two names in turn, quantity k
LongItem(k) ==
    [raw_name |-> IF k % 2 = 1 THEN <<"A">> ELSE <<"B">>,
     raw_quantity |-> Num(k, <<>>),
     raw_price |-> Num(5, <<>>)]

\* the lengths explored: those that fill their chunks and those that leave
\* one item for the last chunk
LongLengths(size) ==
    {size * c : c \in 1..MaxSynthChunks}
    \cup {size * c + 1 : c \in 1..(MaxSynthChunks - 1)}

\* mapItemsWithRAG at the end of its retrieval step: the query embedding
\* call of every raw item has settled, and the catalog (no record has an
\* embedding) gave no candidates
InitSynth ==
    /\ IdleRetry
    /\ IdleParse
    /\ IdleApp
    /\ IdleNear
    /\ config \in {[provider |-> pr, apiKey |-> "user-key"] : pr \in Providers}
    /\ env = NoEnv
    /\ db = <<Product(1, <<"T">>, NoEmb)>>
    /\ db0 = db
    /\ ixPc = "idle"
    /\ ixI = 0
    /\ ixSt = [r \in 1..Len(db) |-> "idle"]
    /\ ixH = [r \in 1..Len(db) |-> NewCall]
    /\ ixRet = [r \in 1..Len(db) |-> NoEmb]
    /\ ixSleeps = <<>>
    /\ ixProgress = <<>>
    /\ ixErr = ""
    /\ pImages = 1
    /\ pPc = "retrieve"
    /\ pI = 1
    /\ pH = NewCall
    /\ \E n \in LongLengths(SynthChunkSize) : pItems = [k \in 1..n |-> LongItem(k)]
    /\ pEmb = [k \in 1..Len(pItems) |->
                 [st |-> "settled", h |-> NewCall, cands |-> <<>>, caught |-> FALSE]]
    /\ remote = 1 + Len(pItems)
    /\ pAdj = <<>>
    /\ pResult = <<>>
    /\ pErr = ""
    /\ pChunks = <<>>

SynthNext ==
    \/ PRetrieveJoin
    \/ PAdjSettle
    \/ PMerge

SpecSynth == InitSynth /\ [][SynthNext]_vars


\* both operations on one configuration; with a resolvable key the inputs are
\* one catalog record and one image chunk
InitService ==
    /\ InitIndex \/ InitPipe
    /\ getEffectiveKey(config) # "" => Len(db) = 1 /\ pImages = 1

SpecService == InitService /\ [][ServiceNext]_vars


\* ------------------------------------------------------------ the application
MaxInvoices == 6
MaxVariedInvoices == 2
MaxResubmissions == 1
AppBatchSize == 5

NoChunks == [id |-> 0, n |-> 0]
\* the file uploaded as invoice number id, sliced into n image chunks
Chunks(id, n) == [id |-> id, n |-> n]

\* handleInvoiceUpload: newInvoices.push({status: 'pending', items: [], ...})
NewInvoice(chunks) ==
    [status |-> "pending", items |-> <<>>, error |-> "", rawImageBase64 |-> chunks]

SetProcessing_Skip(inv, clearError) == inv

\* { ...inv, status: 'processing' } and, on a re-submission, error: undefined
SetProcessing(inv, clearError) ==
    [inv EXCEPT !.status = "processing",
                !.error = IF clearError THEN "" ELSE @]

\* { ...inv, status: 'completed', items: extractedItems }
SetCompleted(inv, items) == [inv EXCEPT !.status = "completed", !.items = items]

SetError_Dropped(inv, message) == inv

\* { ...inv, status: 'error', error: e.message }
SetError(inv, message) == [inv EXCEPT !.status = "error", !.error = message]

\* no processInvoice call was made for the invoice yet
NoCall ==
    [phase |-> "none", by |-> "none", images |-> NoChunks, feedback |-> <<>>,
     raw |-> <<>>, outcome |-> "none", value |-> <<>>, message |-> ""]

\* processInvoice(images, database, aiConfig, feedback) is called: Phase 1
StartCall(by, images, feedback) ==
    [NoCall EXCEPT !.phase = "extract", !.by = by, !.images = images,
                   !.feedback = feedback]

\* const hasApiKey = aiConfig.apiKey || (gemini && GEMINI_API_KEY) || ...
hasApiKey ==
    \/ config.apiKey # ""
    \/ config.provider = "gemini" /\ env.GEMINI_API_KEY # ""
    \/ config.provider = "openai" /\ env.OPENAI_API_KEY # ""

\* database.some(p => !p.embedding || p.embedding.length === 0)
needsIndexing == \E r \in 1..Len(db) : ~HasEmbedding(db[r])

\* what generateEmbeddingsForDatabase returns: each record without an
\* embedding got one, or its call failed and it was left as it was
IndexResults(database) ==
    {d \in [1..Len(database) -> {database[r] : r \in 1..Len(database)}
                               \cup {[database[r] EXCEPT !.embedding = Emb(V10)] :
                                       r \in 1..Len(database)}] :
        \A r \in 1..Len(database) :
            \/ d[r] = database[r]
            \/ ~HasEmbedding(database[r])
               /\ d[r] = [database[r] EXCEPT !.embedding = Emb(V10)]}

\* the raw items Phase 1 returns to processInvoice
AppRawLists == {<<>>, ParseTable(Row(<<"A">>, <<"3">>, <<"8", "0">>))}

\* the items Phase 2 returns for the raw items
AppMapped(raw) ==
    {[k \in 1..Len(raw) |->
        [raw_name |-> raw[k].raw_name, raw_quantity |-> raw[k].raw_quantity,
         raw_price |-> raw[k].raw_price, matched_product_id |-> id,
         reasoning |-> id + 10, candidates |-> <<>>]] : id \in {0, 1}}

\* invoice.items.filter((_, idx) => selectedIncorrectIndices.has(idx))
RECURSIVE Flagged(_, _, _)
Flagged(items, selected, idx) ==
    IF idx > Len(items) THEN <<>>
    ELSE (IF idx \in selected THEN <<items[idx]>> ELSE <<>>)
         \o Flagged(items, selected, idx + 1)

\* ProcessedResults: the Retry button is rendered
RetryOffered_Always(inv) == inv.status \in {"pending", "processing", "completed", "error"}

RetryOffered(inv) == inv.status = "completed" \/ inv.status = "error"

\* the positions of pendingInvoices.slice(i, i + BATCH_SIZE)
AppBatch == {aPending[k] : k \in (aI + 1)..Min(aI + AppBatchSize, Len(aPending))}

RECURSIVE PendingFrom(_)
\* invoices.filter(inv => inv.status === 'pending'), as positions
PendingFrom(i) ==
    IF i > Len(invoices) THEN <<>>
    ELSE (IF invoices[i].status = "pending" THEN <<i>> ELSE <<>>) \o PendingFrom(i + 1)

\* the runs explored: up to MaxVariedInvoices invoices, of any slicing and
\* any outcome of the two phases, under every configuration and catalog but
\* one; and under that one (explicit gemini key, indexed catalog) up to
\* MaxInvoices single-chunk invoices in which Phase 1 finds no item or throws
\* and none is re-submitted
ManyInvoices ==
    /\ config.apiKey # ""
    /\ config.provider = "gemini"
    /\ Len(db) > 0
    /\ ~needsIndexing
\* and, for the runs in which re-submissions meet a full batch, under an
\* explicit openai key up to MaxInvoices single-chunk invoices in which
\* Phase 1 finds no item or throws, with re-submissions
ManyResubmitted ==
    /\ config.apiKey # ""
    /\ config.provider = "openai"
UploadLimit == IF ManyInvoices \/ ManyResubmitted THEN MaxInvoices ELSE MaxVariedInvoices
SliceCounts == IF ManyInvoices \/ ManyResubmitted THEN {1} ELSE 1..MaxImages
ExtractResults == IF ManyInvoices \/ ManyResubmitted THEN {<<>>} ELSE AppRawLists
ResubmissionLimit == IF ManyInvoices THEN 0 ELSE MaxResubmissions

\* handleInvoiceUpload, one file
Upload ==
    /\ Len(invoices) < UploadLimit
    /\ \E n \in SliceCounts :
         invoices' = Append(invoices, NewInvoice(Chunks(Len(invoices) + 1, n)))
    /\ aCall' = Append(aCall, NoCall)
    /\ UNCHANGED <<retryVars, parseVars, nearVars, pipeVars, cfgVars, db, db0,
                   remote, indexVars, isProcessing, aPc, aPending, aI, aAlert, aRetries>>

\* handleProcessInvoices up to its first await; the button is enabled
ProcessClick ==
    /\ ~isProcessing
    /\ \E i \in 1..Len(invoices) : invoices[i].status = "pending"
    /\ IF Len(db) = 0
       THEN /\ aAlert' = "Please upload a product database CSV first."
            /\ UNCHANGED <<isProcessing, aPc, aPending, aI>>
       ELSE IF ~hasApiKey
       THEN /\ aAlert' = "Please enter an API Key"
            /\ UNCHANGED <<isProcessing, aPc, aPending, aI>>
       ELSE /\ isProcessing' = TRUE
            /\ aPending' = PendingFrom(1)
            /\ aI' = 0
            /\ aPc' = IF needsIndexing THEN "indexing" ELSE "batch"
            /\ aAlert' = aAlert
    /\ UNCHANGED <<retryVars, parseVars, nearVars, pipeVars, cfgVars, db, db0,
                   remote, indexVars, invoices, aCall, aRetries>>

\* await generateEmbeddingsForDatabase(...) settles
IndexingSettle ==
    /\ aPc = "indexing"
    /\ IF getEffectiveKey(config) = ""
       THEN /\ aAlert' = "Database indexing failed"
            /\ isProcessing' = FALSE
            /\ aPc' = "idle"
            /\ aPending' = <<>>
            /\ db' = db
       ELSE /\ db' \in IndexResults(db)
            /\ aPc' = "batch"
            /\ UNCHANGED <<aAlert, isProcessing, aPending>>
    /\ UNCHANGED <<retryVars, parseVars, nearVars, pipeVars, cfgVars, db0,
                   remote, indexVars, invoices, aCall, aI, aRetries>>

\* one iteration of the batch loop up to await Promise.all: every invoice of
\* the batch is set to processing and its processInvoice is called
BatchStart ==
    /\ aPc = "batch"
    /\ aI < Len(aPending)
    /\ invoices' = [i \in 1..Len(invoices) |->
                      IF i \in AppBatch THEN SetProcessing(invoices[i], FALSE)
                      ELSE invoices[i]]
    /\ aCall' = [i \in 1..Len(invoices) |->
                   IF i \in AppBatch
                   THEN StartCall("batch", invoices[i].rawImageBase64, <<>>)
                   ELSE aCall[i]]
    /\ aPc' = "await"
    /\ UNCHANGED <<retryVars, parseVars, nearVars, pipeVars, cfgVars, db, db0,
                   remote, indexVars, isProcessing, aPending, aI, aAlert, aRetries>>

\* Promise.all of the batch resolves: every callback has finished
BatchJoin ==
    /\ aPc = "await"
    /\ \A i \in AppBatch : ~(aCall[i].by = "batch" /\ aCall[i].phase # "none")
    /\ aI' = aI + AppBatchSize
    /\ aPc' = "batch"
    /\ UNCHANGED <<retryVars, parseVars, nearVars, pipeVars, cfgVars, db, db0,
                   remote, indexVars, invoices, aCall, isProcessing, aPending,
                   aAlert, aRetries>>

\* the loop is over: setIsProcessing(false)
RunEnd ==
    /\ aPc = "batch"
    /\ aI >= Len(aPending)
    /\ isProcessing' = FALSE
    /\ aPc' = "idle"
    /\ aPending' = <<>>
    /\ aI' = 0
    /\ UNCHANGED <<retryVars, parseVars, nearVars, pipeVars, cfgVars, db, db0,
                   remote, indexVars, invoices, aCall, aAlert, aRetries>>

\* the call of invoice i returned items: status completed
Returned_(i, items) ==
    /\ invoices' = [invoices EXCEPT ![i] = SetCompleted(@, items)]
    /\ aCall' = [aCall EXCEPT ![i] = [NoCall EXCEPT !.by = aCall[i].by,
                                                   !.outcome = "returned",
                                                   !.value = items]]

\* the call of invoice i threw: status error, with the message
Threw_(i, message) ==
    /\ invoices' = [invoices EXCEPT ![i] = SetError(@, message)]
    /\ aCall' = [aCall EXCEPT ![i] = [NoCall EXCEPT !.by = aCall[i].by,
                                                   !.outcome = "threw",
                                                   !.message = message]]

\* Phase 1 of the processInvoice call of invoice i settles: the key is
\* missing, the phase throws, it finds no item (return []) or returns items
ExtractSettle ==
    /\ \E i \in 1..Len(invoices) :
         /\ aCall[i].phase = "extract"
         /\ IF getEffectiveKey(config) = ""
            THEN Threw_(i, KeyRequiredFor(config.provider))
            ELSE \/ Threw_(i, "provider error")
                 \/ \E raw \in ExtractResults :
                      IF raw = <<>>
                      THEN Returned_(i, <<>>)
                      ELSE /\ aCall' = [aCall EXCEPT ![i].phase = "synth", ![i].raw = raw]
                           /\ invoices' = invoices
    /\ UNCHANGED <<retryVars, parseVars, nearVars, pipeVars, cfgVars, db, db0,
                   remote, indexVars, isProcessing, aPc, aPending, aI, aAlert, aRetries>>

\* Phase 2 of the processInvoice call of invoice i settles
SynthSettle ==
    /\ \E i \in 1..Len(invoices) :
         /\ aCall[i].phase = "synth"
         /\ \/ Threw_(i, "provider error")
            \/ \E items \in AppMapped(aCall[i].raw) : Returned_(i, items)
    /\ UNCHANGED <<retryVars, parseVars, nearVars, pipeVars, cfgVars, db, db0,
                   remote, indexVars, isProcessing, aPc, aPending, aI, aAlert, aRetries>>

\* ProcessedResults.handleRetry -> handleRetryInvoice up to its await
RetryClick ==
    /\ aRetries < ResubmissionLimit
    /\ \E i \in 1..Len(invoices) :
         /\ RetryOffered(invoices[i])
         /\ IF Len(db) = 0
            THEN /\ aAlert' = "Please upload a product database CSV first."
                 /\ UNCHANGED <<invoices, aCall, aRetries>>
            ELSE IF ~hasApiKey
            THEN /\ aAlert' = "Please enter an API Key"
                 /\ UNCHANGED <<invoices, aCall, aRetries>>
            ELSE /\ \E selected \in SUBSET (1..Len(invoices[i].items)) :
                      aCall' = [aCall EXCEPT ![i] =
                                  StartCall("retry", invoices[i].rawImageBase64,
                                            Flagged(invoices[i].items, selected, 1))]
                 /\ invoices' = [invoices EXCEPT ![i] = SetProcessing(@, TRUE)]
                 /\ aRetries' = aRetries + 1
                 /\ aAlert' = aAlert
    /\ UNCHANGED <<retryVars, parseVars, nearVars, pipeVars, cfgVars, db, db0,
                   remote, indexVars, isProcessing, aPc, aPending, aI>>

AppNext ==
    \/ Upload
    \/ ProcessClick
    \/ IndexingSettle
    \/ BatchStart
    \/ BatchJoin
    \/ RunEnd
    \/ ExtractSettle
    \/ SynthSettle
    \/ RetryClick

\* the configurations and catalogs the application is run with
AppConfigs ==
    {<<[provider |-> "gemini", apiKey |-> ""], NoEnv>>,
     <<[provider |-> "gemini", apiKey |-> ""], Env("", "", "env-gemini")>>,
     <<[provider |-> "gemini", apiKey |-> "user-key"], NoEnv>>,
     <<[provider |-> "openai", apiKey |-> ""], Env("", "env-openai", "")>>}
AppCatalogs ==
    {<<>>, <<Product(1, <<"T">>, NoEmb)>>, <<Product(1, <<"T">>, Emb(V10))>>}

InitApp ==
    /\ IdleRetry
    /\ IdleNear
    /\ IdleParse
    /\ IdlePipe
    /\ \E c \in AppConfigs : config = c[1] /\ env = c[2]
    /\ db \in AppCatalogs
    /\ db0 = db
    /\ remote = 0
    /\ ixPc = "idle"
    /\ ixI = 0
    /\ ixSt = [r \in 1..Len(db) |-> "idle"]
    /\ ixH = [r \in 1..Len(db) |-> NewCall]
    /\ ixRet = [r \in 1..Len(db) |-> NoEmb]
    /\ ixSleeps = <<>>
    /\ ixProgress = <<>>
    /\ ixErr = ""
    /\ invoices = <<>>
    /\ aCall = <<>>
    /\ isProcessing = FALSE
    /\ aPc = "idle"
    /\ aPending = <<>>
    /\ aI = 0
    /\ aAlert = ""
    /\ aRetries = 0

SpecApp == InitApp /\ [][AppNext]_vars

\* the application under an explicit openai key, with a catalog still to be
\* indexed; Phase 1 finds no item there, so Phase 2 is never entered
InitAppResubmit ==
    /\ IdleRetry
    /\ IdleNear
    /\ IdleParse
    /\ IdlePipe
    /\ config = [provider |-> "openai", apiKey |-> "user-key"]
    /\ env = NoEnv
    /\ db = <<Product(1, <<"T">>, NoEmb)>>
    /\ db0 = db
    /\ remote = 0
    /\ ixPc = "idle"
    /\ ixI = 0
    /\ ixSt = [r \in 1..Len(db) |-> "idle"]
    /\ ixH = [r \in 1..Len(db) |-> NewCall]
    /\ ixRet = [r \in 1..Len(db) |-> NoEmb]
    /\ ixSleeps = <<>>
    /\ ixProgress = <<>>
    /\ ixErr = ""
    /\ invoices = <<>>
    /\ aCall = <<>>
    /\ isProcessing = FALSE
    /\ aPc = "idle"
    /\ aPending = <<>>
    /\ aI = 0
    /\ aAlert = ""
    /\ aRetries = 0

AppResubmitNext ==
    \/ Upload
    \/ ProcessClick
    \/ IndexingSettle
    \/ BatchStart
    \/ BatchJoin
    \/ RunEnd
    \/ ExtractSettle
    \/ RetryClick

SpecAppResubmit == InitAppResubmit /\ [][AppResubmitNext]_vars

\* every remote call eventually returns or fails, and the event loop runs
\* every continuation that is ready
SpecAppLive ==
    /\ InitApp
    /\ [][AppNext]_vars
    /\ WF_vars(IndexingSettle)
    /\ WF_vars(BatchStart)
    /\ WF_vars(BatchJoin)
    /\ WF_vars(RunEnd)
    /\ WF_vars(ExtractSettle)
    /\ WF_vars(SynthSettle)

\* ------------------------------------------------- claims about the harness
\* the outcomes before the last one
Earlier == 1..(Len(hist) - 1)
RetryableFailure(o) == ~o.ok /\ IsRetryable(o.error)
\* initialDelay, 2*initialDelay, ..., 2^(n-1)*initialDelay
Backoff(n) == [k \in 1..n |-> rInit * Pow2(k - 1)]

\* C1: when the operation fails with retryable errors on its first n attempts
\* (0 <= n < maxAttempts) and succeeds on attempt n+1, the harness has returned
\* that success value after exactly n+1 invocations and exactly n waits of
\* initialDelay, 2*initialDelay, ..., 2^(n-1)*initialDelay, in that order.
C1_SuccessAfterBackoff ==
    (/\ Len(hist) >= 1
     /\ Len(hist) <= rMax
     /\ hist[Len(hist)].ok
     /\ \A j \in Earlier : RetryableFailure(hist[j]))
    => /\ h.status = "returned"
       /\ h.value = hist[Len(hist)].value
       /\ h.calls = Len(hist)
       /\ h.waits = Backoff(Len(hist) - 1)

\* two retryable failures, then a success, with the default arguments
C1_Witness ==
    /\ rMax = DefaultMaxRetries
    /\ rInit = DefaultInitialDelay
    /\ Len(hist) = 3
    /\ RetryableFailure(hist[1])
    /\ RetryableFailure(hist[2])
    /\ hist[3].ok
    /\ h.status = "returned"
    /\ h.waits = <<1000, 2000>>

\* C2: an attempt that fails with a non-retryable error makes the harness
\* re-raise that same error at once: the operation is never invoked after such
\* a failure and no wait follows it, whatever number of attempts remains.
C2_NonRetryablePropagates ==
    /\ \A j \in Earlier : RetryableFailure(hist[j])
    /\ (Len(hist) >= 1 /\ ~hist[Len(hist)].ok
            /\ ~IsRetryable(hist[Len(hist)].error))
       => /\ h.status = "threw"
          /\ h.error = hist[Len(hist)].error
          /\ h.calls = Len(hist)
          /\ Len(h.waits) = Len(hist) - 1

\* a non-retryable failure on the second of five attempts
C2_Witness ==
    /\ rMax = DefaultMaxRetries
    /\ Len(hist) = 2
    /\ RetryableFailure(hist[1])
    /\ hist[2] = Fail(ErrAuth)
    /\ h.status = "threw"
    /\ h.waits = <<rInit>>

\* C3: the operation is invoked at most maxAttempts times; when all
\* maxAttempts attempts fail with retryable errors the harness re-raises the
\* error of the last attempt after exactly maxAttempts-1 waits, none of them
\* after the final attempt.
C3_BoundedAttempts ==
    /\ h.calls <= rMax
    /\ Len(hist) = h.calls
    /\ (Len(hist) = rMax /\ \A j \in 1..rMax : RetryableFailure(hist[j]))
       => /\ h.status = "threw"
          /\ h.error = hist[rMax].error
          /\ h.waits = Backoff(rMax - 1)

\* five retryable failures exhaust the default budget
C3_Witness ==
    /\ rMax = DefaultMaxRetries
    /\ Len(hist) = rMax
    /\ \A j \in 1..rMax : RetryableFailure(hist[j])
    /\ h.status = "threw"
    /\ Len(h.waits) = 4

IsDigit(c) == c \in {"0", "1", "2", "3", "4", "5", "6", "7", "8", "9"}

\* the message mentions the number num: its digits occur, and not as part of
\* a longer number
MentionsNumber(s, num) ==
    \E k \in 1..(Len(s) - Len(num) + 1) :
        /\ SubSeq(s, k, k + Len(num) - 1) = num
        /\ (k = 1 \/ ~IsDigit(s[k - 1]))
        /\ (k + Len(num) - 1 = Len(s) \/ ~IsDigit(s[k + Len(num)]))

\* the error signals rate limiting or a transient server failure: status 429,
\* 500 or 503, one of these numbers in the message, or a textual marker
SignalsTransient(error) ==
    \/ StatusOf(error) \in {429, 500, 503}
    \/ \E num \in {S429, S500, S503} : MentionsNumber(error.message, num)
    \/ \E marker \in {SQuota, SResourceExhausted, SInternalError} :
          includes(toLowerCase(error.message), marker)

\* C4: the harness treats an error as retryable (invokes the operation again
\* after it) only if the error signals rate limiting or a transient server
\* failure; an error whose message merely mentions some other number is not
\* retried.
C4_RetriesOnlyTransient ==
    \A j \in Earlier : ~hist[j].ok /\ SignalsTransient(hist[j].error)

\* ------------------------------------------------- claims about the Indexer
\* the record had a non-empty embedding when the Indexer was called
Indexed0(r) == db0[r].embedding.has /\ db0[r].embedding.vec # <<>>

\* C5: on a catalog in which every record already has a non-empty embedding
\* the Indexer issues no remote embedding call and returns the same records,
\* in the same order, with the same embeddings (it throws only when no key is
\* resolvable).
C5_ReindexIsNoOp ==
    (\A r \in 1..Len(db0) : Indexed0(r))
    => /\ remote = 0
       /\ db = db0
       /\ ixPc # "await"
       /\ ixPc = "threw" => getEffectiveKey(config) = ""

\* the Indexer has returned a fully indexed catalog of two records
C5_Witness ==
    /\ Len(db0) = 2
    /\ \A r \in 1..Len(db0) : Indexed0(r)
    /\ ixPc = "done"

\* C6: the failure of one record's embedding call (a non-retryable error, or
\* retryable errors on every attempt) never makes the Indexer throw; when the
\* Indexer has returned, that record is as it was, and every record that
\* lacked an embedding and has derived text was called, and if its call
\* succeeded its embedding is the value the call returned.
C6_FailureIsSwallowed ==
    /\ ixPc = "threw" => getEffectiveKey(config) = "" /\ remote = 0
    /\ ixPc = "done" =>
         \A r \in 1..Len(db0) :
            (~Indexed0(r) /\ TextToEmbed(db0[r]) # <<>>)
            => \/ ixSt[r] = "failed" /\ db[r] = db0[r]
               \/ /\ ixSt[r] = "ok"
                  /\ ixRet[r].has
                  /\ db[r].embedding = ixRet[r]

\* the Indexer has returned after one call failed and another succeeded
C6_Witness ==
    /\ ixPc = "done"
    /\ \E r1, r2 \in 1..Len(db0) :
         /\ ixSt[r1] = "failed"
         /\ ~db[r1].embedding.has
         /\ ixSt[r2] = "ok"
         /\ db[r2].embedding = Emb(V10)

\* ------------------------------------- claims about the Candidate Retriever
\* the similarity to the query of the product at position r of the catalog
SimOf(r) == cosineSimilarity(nQ, db[r].embedding.vec)
\* x >= y and x > y on similarities; no comparison with NaN is true
SimGe(x, y) == ~x.nan /\ ~y.nan /\ ~NumLess(x, y)
SimGt(x, y) == ~x.nan /\ ~y.nan /\ NumLess(y, x)
Returned == {nRes[i] : i \in 1..Len(nRes)}
\* the products that have an embedding field
WithEmbedding == {r \in 1..Len(db) : db[r].embedding.has}

\* C8: for every query vector, catalog and k, nearest returns at most k
\* records, each with a cosine similarity to the query greater than or equal
\* to that of the next, and no record left out has a similarity greater than
\* that of a returned one.  Stated for the queries synthesis passes to
\* nearest, the non-empty ones (the empty query is C10's case).
C8_TopKBySimilarity ==
    (nPc = "done" /\ nQ # <<>>) =>
        /\ Len(nRes) <= nK
        /\ \A i \in 1..(Len(nRes) - 1) : SimGe(SimOf(nRes[i]), SimOf(nRes[i + 1]))
        /\ \A r \in WithEmbedding \ Returned :
              \A x \in Returned : ~SimGt(SimOf(r), SimOf(x))

\* C9: nearest returns the empty list whenever no record of the catalog has an
\* embedding, for every query and every k.
C9_NoEmbeddingsNoResult ==
    (nPc = "done" /\ \A r \in 1..Len(db) : ~db[r].embedding.has)
    => nRes = <<>>

\* a catalog of two records without embeddings was searched for k >= 1
C9_Witness ==
    /\ nPc = "done"
    /\ Len(db) = 2
    /\ \A r \in 1..Len(db) : ~db[r].embedding.has
    /\ nQ = V10
    /\ nK >= 1

\* C10 as stated: nearest(q, catalog, k) returns the empty list when the
\* query vector is empty, even when the catalog has records with embeddings.
C10_EmptyQueryEmptyResult ==
    (nPc = "done" /\ nQ = <<>>) => nRes = <<>>

\* C10 as amended: with an empty query vector the vector search of synthesis
\* yields no candidates, without calling nearest; nearest itself, called with
\* an empty query, returns the first k records that have an embedding field,
\* in catalog order.
C10_EmptyQueryGuardedByCaller ==
    nQ = <<>> =>
        /\ nCandPc = "done" => nCand = <<>>
        /\ nPc = "done" =>
              nRes = SubSeq(FilterEmbedded(db, 1), 1,
                            Min(nK, Cardinality(WithEmbedding)))

\* both were run with an empty query on a catalog that has embeddings
C10_Witness ==
    /\ nQ = <<>>
    /\ nCandPc = "done"
    /\ nCand = <<>>
    /\ nPc = "done"
    /\ nRes # <<>>
    /\ \E r \in 1..Len(db) : db[r].embedding = Emb(V10)

\* ------------------------------------------- claims about the configuration
\* neither an explicit key nor the selected provider's process-level default
KeyUnresolvable ==
    /\ config.apiKey = ""
    /\ config.provider = "gemini" => env.API_KEY = ""
    /\ config.provider = "openai" => env.OPENAI_API_KEY = ""

\* C7: when neither an explicit apiKey nor a process-level default of the
\* selected provider is resolvable, the Indexer and the invoice pipeline,
\* once called, have failed with the configuration error, no remote call has
\* been issued and every catalog record is as it was.
C7_NoKeyFailsFirst ==
    KeyUnresolvable =>
        /\ remote = 0
        /\ db = db0
        /\ ixPc \in {"idle", "threw"}
        /\ ixPc = "threw" => ixErr = "API Key required for indexing"
        /\ pPc \in {"idle", "threw"}
        /\ pPc = "threw" => pErr = KeyRequiredFor(config.provider)
        /\ pItems = <<>> /\ pEmb = <<>> /\ pAdj = <<>> /\ pResult = <<>>

\* both operations were called with openai selected and only the gemini
\* default set, over a catalog with an unindexed record
C7_Witness ==
    /\ KeyUnresolvable
    /\ config.provider = "openai"
    /\ env.API_KEY # ""
    /\ \E r \in 1..Len(db) : ~db[r].embedding.has
    /\ ixPc = "threw"
    /\ pPc = "threw"
    /\ remote = 0
    /\ db = db0

\* ------------------------------------------------ claims about the table parser
\* the rows the specification discards: a header label, only separator characters
IsHeaderRow(line) == toLowerCase(Cols(line)[1]) = SDescription
IsSeparatorRow(line) ==
    \A c \in 1..Len(Cols(line)) :
        \A k \in 1..Len(Cols(line)[c]) : Cols(line)[c][k] \in {"-", ":"}

\* a pipe-delimited row with at least 3 non-empty cells
IsDataRow(line) ==
    /\ startsWith(trim(line), "|")
    /\ Len(Cols(line)) >= 3
    /\ ~IsHeaderRow(line)
    /\ ~IsSeparatorRow(line)

\* the number in a cell after stripping, d when nothing parses
NumberIn(cell, d) ==
    LET v == parseFloat(StripNonNumeric(cell))
    IN  IF v.nan THEN Num(d, <<>>) ELSE v

ExpectedItem(line) ==
    [raw_name |-> Cols(line)[1],
     raw_quantity |-> NumberIn(Cols(line)[2], 1),
     raw_price |-> NumberIn(Cols(line)[3], 0)]

\* C11: every pipe-delimited row of the response with at least 3 non-empty
\* cells yields exactly one item, in row order: its raw_name is the first
\* cell, its raw_quantity the number in the second cell after stripping
\* non-numeric characters (1 when nothing parses), its raw_price the number
\* in the third cell after stripping (0 when nothing parses).
C11_RowYieldsOneItem ==
    tPc = "done" =>
        LET rows == SelectSeq(split(tText, "\n"), IsDataRow)
        IN  tItems = [k \in 1..Len(rows) |-> ExpectedItem(rows[k])]

\* ------------------------------------------------- claims about the final merge
\* the decisions of all chunk responses, in chunk order
Collected == FinalMapped(1)
\* decision i is the first collected decision that carries raw_name
FirstFor(i, raw_name) ==
    /\ Collected[i].raw_name = raw_name
    /\ \A j \in 1..(i - 1) : Collected[j].raw_name # raw_name
Decided(raw_name) == \E i \in 1..Len(Collected) : Collected[i].raw_name = raw_name
Merged == pPc = "done" /\ pItems # <<>>

\* C12: in the final merge, a raw item whose raw_name equals the raw_name of
\* a decision in the collected chunk responses carries the matched_product_id
\* and the reasoning of that decision (the first one with that raw_name).
C12_MergeTakesDecision ==
    Merged =>
        \A k \in 1..Len(pItems) : \A i \in 1..Len(Collected) :
            FirstFor(i, pItems[k].raw_name) =>
                /\ pResult[k].matched_product_id = Collected[i].matched_product_id
                /\ pResult[k].reasoning = Collected[i].reasoning

\* two items were decided on, the second for another product than the first
C12_Witness ==
    /\ Merged
    /\ Len(pItems) = 2
    /\ Len(Collected) = 2
    /\ FirstFor(2, pItems[2].raw_name)
    /\ Collected[1].matched_product_id = 1
    /\ Collected[2].matched_product_id = 2
    /\ pResult[1].matched_product_id = 1
    /\ pResult[2].matched_product_id = 2

\* C13: a raw item for which no decision with its raw_name occurs in any
\* chunk response is still present in the synthesis output, at its
\* position, with matched_product_id null.
C13_UndecidedItemIsKept ==
    Merged =>
        /\ Len(pResult) = Len(pItems)
        /\ \A k \in 1..Len(pItems) :
              ~Decided(pItems[k].raw_name) =>
                  /\ pResult[k].raw_name = pItems[k].raw_name
                  /\ pResult[k].raw_quantity = pItems[k].raw_quantity
                  /\ pResult[k].raw_price = pItems[k].raw_price
                  /\ pResult[k].matched_product_id = 0

\* the response decided on the first item only: the second is kept, unmatched
C13_Witness ==
    /\ Merged
    /\ Len(pItems) = 2
    /\ Len(Collected) = 1
    /\ Collected[1].matched_product_id # 0
    /\ Decided(pItems[1].raw_name)
    /\ ~Decided(pItems[2].raw_name)
    /\ pResult[1].matched_product_id # 0
    /\ pResult[2].matched_product_id = 0

\* ------------------------------------------------ claims about the application
StatusTransitions ==
    {<<"pending", "processing">>, <<"processing", "completed">>,
     <<"processing", "error">>, <<"completed", "processing">>,
     <<"error", "processing">>}

\* C14: the only status transitions an invoice ever makes are
\* pending->processing, processing->completed, processing->error,
\* completed->processing and error->processing; an invoice starts pending, so
\* it never reaches completed or error without passing through processing,
\* and it never returns to pending.
C14_StatusTransitions ==
    [][/\ Len(invoices') >= Len(invoices)
       /\ \A i \in 1..Len(invoices) :
             \/ invoices'[i].status = invoices[i].status
             \/ <<invoices[i].status, invoices'[i].status>> \in StatusTransitions
       /\ \A i \in (Len(invoices) + 1)..Len(invoices') :
             invoices'[i].status = "pending"]_vars

\* one invoice was re-submitted and failed, another one completed
C14_Witness ==
    \E i, j \in 1..Len(invoices) :
        /\ invoices[i].status = "error"
        /\ aCall[i].by = "retry"
        /\ invoices[j].status = "completed"
        /\ aCall[j].by = "batch"

Terminal(i) == invoices[i].status \in {"completed", "error"}
InRun(i) == \E k \in 1..Len(aPending) : aPending[k] = i
\* invoice i is processing, or belongs to a run whose batch loop has started
Owed(i) ==
    \/ i <= Len(invoices) /\ invoices[i].status = "processing"
    \/ aPc \in {"batch", "await"} /\ InRun(i)
Settled(i) == i <= Len(invoices) /\ Terminal(i)

\* C15: with every remote call eventually returning or failing, every
\* invoice that enters processing eventually is completed or in error;
\* completed means its call returned and items is the returned list, error
\* means its call threw and error is the message thrown; and every invoice of
\* a run whose batch loop has started reaches a terminal status, whatever
\* happens to the other invoices of the run.
C15_EveryInvoiceTerminates ==
    /\ [](\A i \in 1..Len(invoices) :
            /\ invoices[i].status = "completed" =>
                  /\ aCall[i].outcome = "returned"
                  /\ invoices[i].items = aCall[i].value
                  /\ invoices[i].error = ""
            /\ invoices[i].status = "error" =>
                  /\ aCall[i].outcome = "threw"
                  /\ invoices[i].error = aCall[i].message
                  /\ invoices[i].error # "")
    /\ \A i \in 1..MaxInvoices : Owed(i) ~> Settled(i)

\* a run of more invoices than one batch holds: an invoice of the first
\* batch failed, and an invoice of the second batch completed
C15_Witness ==
    /\ Len(aPending) > AppBatchSize
    /\ \E i, j \in 1..Len(invoices) :
          /\ InRun(i) /\ InRun(j)
          /\ \E k \in 1..AppBatchSize : aPending[k] = i
          /\ \E k \in (AppBatchSize + 1)..Len(aPending) : aPending[k] = j
          /\ invoices[i].status = "error"
          /\ invoices[j].status = "completed"

\* C16: a re-submission happens only for an invoice that is completed or in
\* error; it moves the invoice to processing, clears the retained error,
\* calls the pipeline with exactly the image chunks stored at upload, which
\* no transition ever changes, and with the user-flagged items as feedback.
C16_Resubmission ==
    [][/\ \A i \in 1..Len(invoices) :
             /\ invoices'[i].rawImageBase64 = invoices[i].rawImageBase64
             /\ invoices[i].rawImageBase64.id = i
             /\ (aCall'[i] # aCall[i] /\ aCall'[i].by = "retry"
                                     /\ aCall'[i].phase = "extract") =>
                   /\ invoices[i].status \in {"completed", "error"}
                   /\ invoices'[i].status = "processing"
                   /\ invoices'[i].error = ""
                   /\ aCall'[i].images = invoices[i].rawImageBase64
                   /\ \E selected \in SUBSET (1..Len(invoices[i].items)) :
                         aCall'[i].feedback = Flagged(invoices[i].items, selected, 1)
       /\ aRetries' # aRetries =>
             \E i \in 1..Len(invoices) :
                 aCall'[i] # aCall[i] /\ aCall'[i].by = "retry"
                                      /\ aCall'[i].phase = "extract"]_vars

\* a completed invoice of two chunks was re-submitted with an item flagged
C16_Witness ==
    \E i \in 1..Len(invoices) :
        /\ aCall[i].by = "retry"
        /\ aCall[i].phase = "extract"
        /\ aCall[i].feedback # <<>>
        /\ aCall[i].images = invoices[i].rawImageBase64
        /\ invoices[i].rawImageBase64.n = 2
        /\ invoices[i].status = "processing"
        /\ invoices[i].items # <<>>

\* --------------------------------------------- claims about the synthesis phase
\* C17: whatever the provider returns for a synthesis chunk, decoding never
\* raises out of synthesis: processInvoice throws only what the provider
\* calls threw (or the configuration error), and a chunk whose response is
\* unparseable or non-conforming contributes no decision.
C17_DecodingNeverRaises ==
    /\ pPc = "threw" =>
          pErr \in {"provider error", KeyRequiredFor(config.provider)}
    /\ \A c \in 1..Len(pAdj) : pAdj[c].res.kind = "array"

\* C18: in the retrieval step, an item whose query embedding call threw out
\* of retryOperation has no candidates, every other settled item has the
\* candidates of the vector search for its own query embedding, and the
\* pipeline never throws between the start of retrieval and the start of
\* adjudication.
C18_EmbeddingFailureIsContained ==
    /\ \A k \in 1..Len(pEmb) :
          pEmb[k].caught => pEmb[k].st = "settled" /\ pEmb[k].cands = <<>>
    /\ \A k \in 1..Len(pEmb) :
          pEmb[k].st = "settled" /\ ~pEmb[k].caught =>
             \E v \in QueryValues(config.provider) :
                 pEmb[k].cands \in VectorSearch(v, db)
    /\ pPc = "threw" /\ pEmb # <<>> => pAdj # <<>>

\* two items, the embedding call of one failed and the other has candidates,
\* and processInvoice returned
C18_Witness ==
    /\ pPc = "done"
    /\ \E k, j \in 1..Len(pEmb) :
          /\ pEmb[k].caught
          /\ pResult[k].candidates = <<>>
          /\ ~pEmb[j].caught
          /\ pResult[j].candidates # <<>>

\* the chunks' items of the chunk loop, concatenated in chunk order
RECURSIVE ChunksInOrder(_)
ChunksInOrder(c) ==
    IF c > Len(pChunks) THEN <<>> ELSE pChunks[c].items \o ChunksInOrder(c + 1)

\* C19: during extraction at most one image chunk has its vision call (with
\* its retries) pending, a chunk is reached only when every chunk before it
\* has returned its items, and allItems is the concatenation of the returned
\* chunks' items in chunk order.
C19_ExtractionIsSequential ==
    /\ Cardinality({c \in 1..Len(pChunks) : pChunks[c].st = "inflight"}) <= 1
    /\ \A c \in 1..Len(pChunks) :
          pChunks[c].st # "idle" =>
             \A b \in 1..(c - 1) : pChunks[b].st = "settled"
    /\ pPc \in {"extract", "extracted"} => pItems = ChunksInOrder(1)

\* extraction of two chunks has returned; the first chunk gave one row
\* and the second a different row
C19_Witness ==
    /\ pPc = "extracted"
    /\ Len(pChunks) = 2
    /\ Len(pChunks[1].items) = 1
    /\ Len(pChunks[2].items) = 1
    /\ pChunks[1].items[1].raw_name # pChunks[2].items[1].raw_name
    /\ pItems = pChunks[1].items \o pChunks[2].items

\* C20: when no chunk of the invoice yielded a row, extractRawItems returns
\* the empty list, and the step processInvoice takes from there returns the
\* empty result and issues no remote call: no query embedding call and no
\* synthesis call is ever started for the invoice.
C20_EmptyExtractionShortCircuits ==
    /\ [](pPc = "extracted" /\ (\A c \in 1..Len(pChunks) : pChunks[c].items = <<>>)
             => pItems = <<>>)
    /\ [](pItems = <<>> => pEmb = <<>> /\ pAdj = <<>>)
    /\ [][pPc = "extracted" /\ pItems = <<>> =>
             /\ pPc' = "done"
             /\ pResult' = <<>>
             /\ remote' = remote]_vars

\* processInvoice has returned for an invoice of two image chunks, neither of
\* which yielded a row
C20_Witness ==
    /\ pPc = "done"
    /\ pI = 2
    /\ pItems = <<>>
    /\ pResult = <<>>
    /\ remote >= 2

\* the ids of the records of the catalog the pipeline runs against
CatalogIds == {db[r].id : r \in 1..Len(db)}

\* C21: in every item processInvoice returns, matched_product_id is null (0)
\* or the id of a record of the catalog the pipeline was run against.
C21_MatchedIdInCatalog ==
    pPc = "done" =>
       \A k \in 1..Len(pResult) :
           pResult[k].matched_product_id \in {0} \cup CatalogIds

\* the processInvoice call of invoice i has not settled
PipelineInFlight(i) == aCall[i].phase \in {"extract", "synth"}

\* C22: while handleProcessInvoices awaits generateEmbeddingsForDatabase, no
\* processInvoice call (of a batch run or of a re-submission) is in flight.
C22_NoPipelineWhileIndexing ==
    aPc = "indexing" => \A i \in 1..Len(invoices) : ~PipelineInFlight(i)

\* the invoices whose processInvoice call is in flight
InFlight == {i \in 1..Len(invoices) : PipelineInFlight(i)}

\* in a batch run, no call of a batch already joined or not yet started is in
\* flight: the calls of the run in flight belong to the present batch
BatchesInTurn ==
    \A i \in 1..Len(invoices) :
        PipelineInFlight(i) /\ aCall[i].by = "batch" =>
            aPc = "await" /\ i \in AppBatch

\* C23: at most BATCH_SIZE (5) processInvoice calls are in flight at any time,
\* and the calls of a batch of a run start only after every call of the
\* batch before it has settled.
C23_AtMostBatchSizeInFlight ==
    /\ Cardinality(InFlight) <= AppBatchSize
    /\ BatchesInTurn

\* the slices of the chunks from the c-th on, concatenated
RECURSIVE SlicesFrom(_)
SlicesFrom(c) ==
    IF c > Len(pAdj) THEN <<>> ELSE ChunkSlice(c) \o SlicesFrom(c + 1)

AdjInFlight == {c \in 1..Len(pAdj) : pAdj[c].st = "inflight"}

\* C24: once the synthesis calls have started, the chunks are consecutive
\* slices of the raw items of CHUNK_SIZE items (40 for openai, 15 otherwise),
\* the last one of at most that many and at least one, that together are the
\* raw items in order; for a provider other than openai at most one
\* adjudication call is in flight and a chunk is reached only when every
\* chunk before it has settled; for openai no chunk waits for another.
C24_ChunkedSynthesis ==
    pPc \in {"adjudicate", "done"} =>
       /\ SynthChunkSize = (IF config.provider = "openai" THEN 40 ELSE 15)
       /\ SlicesFrom(1) = pItems
       /\ \A c \in 1..Len(pAdj) :
             /\ Len(ChunkSlice(c)) >= 1
             /\ Len(ChunkSlice(c)) <= SynthChunkSize
             /\ c < Len(pAdj) => Len(ChunkSlice(c)) = SynthChunkSize
       /\ config.provider # "openai" =>
             /\ Cardinality(AdjInFlight) <= 1
             /\ \A c \in 1..Len(pAdj) :
                   pAdj[c].st # "idle" =>
                      \A b \in 1..(c - 1) : pAdj[b].st = "settled"
       /\ config.provider = "openai" =>
             \A c \in 1..Len(pAdj) : pAdj[c].st # "idle"

\* a serial provider is at its second chunk, the first one settled, with one
\* item left for it
C24_Witness ==
    /\ pPc = "adjudicate"
    /\ config.provider = "gemini"
    /\ Len(pItems) = 16
    /\ Len(pAdj) = 2
    /\ pAdj[1].st = "settled"
    /\ pAdj[2].st = "inflight"
    /\ Len(ChunkSlice(2)) = 1

\* C25: within one processInvoice call, a query embedding call exists only
\* once the vision call of the last image chunk has returned, and an
\* adjudication call exists only once the query embedding call of every raw
\* item has settled.
C25_PhasesInOrder ==
    /\ pPc = "extract" => pEmb = <<>> /\ pAdj = <<>>
    /\ pEmb # <<>> => pI = pImages /\ Len(pEmb) = Len(pItems)
    /\ pAdj # <<>> => \A k \in 1..Len(pEmb) : pEmb[k].st = "settled"

\* an invoice of two image chunks and two raw items is at its adjudication
\* call, with both query embedding calls settled
C25_Witness ==
    /\ pPc = "adjudicate"
    /\ pImages = 2
    /\ Len(pItems) = 2
    /\ pAdj[1].st = "inflight"
    /\ \A k \in 1..Len(pEmb) : pEmb[k].st = "settled"

\* the records whose embedding call (with its retries) has not settled
IndexInFlight == {r \in 1..Len(db) : ixSt[r] = "inflight"}

\* the number of the batch record r belongs to
BatchOf(r) ==
    (r - 1) \div (IF config.provider = "openai" THEN IndexBatchOpenAI
                  ELSE IndexBatchOther)

\* C26: during indexing at most 20 embedding calls are in flight for openai
\* and at most one for any other provider, the calls in flight belong to one
\* batch, and no record of a later batch has been reached while a call is in
\* flight.
C26_IndexBatchesInTurn ==
    /\ Cardinality(IndexInFlight)
          <= (IF config.provider = "openai" THEN 20 ELSE 1)
    /\ \A r \in IndexInFlight :
          \A q \in 1..Len(db) :
              /\ BatchOf(q) < BatchOf(r) => ixSt[q] # "inflight"
              /\ BatchOf(q) > BatchOf(r) => ixSt[q] = "idle"

\* openai: the call of record 21 is in flight after both calls of the first
\* batch have settled
C26_Witness ==
    /\ config.provider = "openai"
    /\ Len(db) = 21
    /\ ixSt[1] = "ok"
    /\ ixSt[20] = "failed"
    /\ ixSt[21] = "inflight"

\* the batches the loop is through (0-based) in which some record had no
\* embedding when the run began
WorkedBatches ==
    {b \in 0..Len(db) :
        /\ b * IndexBatchSize < ixI
        /\ b * IndexBatchSize < Len(db)
        /\ \E r \in 1..Len(db) : BatchOf(r) = b /\ ~HasEmbedding(db0[r])}

\* C27: a record that had a non-empty embedding when the indexing run began
\* never has an embedding call (its callback returns at once, or its batch
\* is skipped) and keeps its embedding, whatever the other members of its
\* batch; the inter-batch delays are those of the batches that had a record
\* without embedding, so a batch whose every member has one adds no call and
\* no delay.
C27_IndexedRecordsUntouched ==
    /\ \A r \in 1..Len(db) :
          HasEmbedding(db0[r]) =>
             /\ ixSt[r] \in {"idle", "skipped"}
             /\ db[r] = db0[r]
    /\ Len(ixSleeps) = Cardinality(WorkedBatches)

\* openai: the run is over; record 1 was embedded while record 2 of its
\* batch was left alone, and the batch of record 21, which had an embedding,
\* was skipped without a delay
C27_Witness ==
    /\ config.provider = "openai"
    /\ ixPc = "done"
    /\ ixSt[1] = "ok"
    /\ ixSt[2] = "skipped"
    /\ HasEmbedding(db0[21])
    /\ ixSt[21] = "idle"
    /\ Len(ixSleeps) = 1

\* C28: when several raw items of the invoice carry the same raw_name, each
\* of them has the matched_product_id and the reasoning of the earliest
\* collected decision with that raw_name, so they all agree, whatever a later
\* decision with that name says.
C28_SameNameSameDecision ==
    Merged =>
        \A k, l \in 1..Len(pItems) :
            k # l /\ pItems[k].raw_name = pItems[l].raw_name =>
                /\ pResult[k].matched_product_id = pResult[l].matched_product_id
                /\ pResult[k].reasoning = pResult[l].reasoning
                /\ \A i \in 1..Len(Collected) :
                      (Collected[i].raw_name = pItems[k].raw_name
                       /\ \A j \in 1..(i - 1) :
                             Collected[j].raw_name # pItems[k].raw_name)
                      => /\ pResult[l].matched_product_id
                               = Collected[i].matched_product_id
                         /\ pResult[l].reasoning = Collected[i].reasoning

\* two items of the same name, the response decided on product 1 for the
\* first and product 2 for the second: both carry product 1
C28_Witness ==
    /\ Merged
    /\ Len(pItems) = 2
    /\ pItems[1].raw_name = pItems[2].raw_name
    /\ Len(Collected) = 2
    /\ Collected[1].raw_name = pItems[1].raw_name
    /\ Collected[2].raw_name = pItems[1].raw_name
    /\ Collected[1].matched_product_id = 1
    /\ Collected[2].matched_product_id = 2
    /\ pResult[1].matched_product_id = 1
    /\ pResult[2].matched_product_id = 1

\* C29: every record findNearestNeighbors returns has a non-empty embedding
\* (nRes holds positions in the catalog): a record whose embedding is absent
\* or the empty vector is never among the candidates.
C29_ReturnedHaveEmbedding ==
    nPc = "done" =>
        \A i \in 1..Len(nRes) :
            /\ db[nRes[i]].embedding.has
            /\ db[nRes[i]].embedding.vec # <<>>

\* the position of the first line that contains ---, 0 when there is none
FirstSeparator(lines) ==
    IF \E i \in 1..Len(lines) : includes(lines[i], SDashes)
    THEN CHOOSE i \in 1..Len(lines) :
            /\ includes(lines[i], SDashes)
            /\ \A j \in 1..(i - 1) : ~includes(lines[j], SDashes)
    ELSE 0

\* C30: the items parsed from a response are those of the rows that follow
\* its first separator row (a row containing ---); the rows before it yield
\* none, and a response without a separator row yields none.
C30_RowsAfterSeparatorOnly ==
    tPc = "done" =>
        LET lines == split(tText, "\n")
            s == FirstSeparator(lines)
        IN  IF s = 0 THEN tItems = <<>>
            ELSE tItems = ParseFrom(lines, s, TRUE, <<>>)

====
